---- MODULE Spec2Model ----
(***************************************************************************)
(* ToolForge: frame-aware streaming gateway.                               *)
(*                                                                         *)
(* Text is modelled as a sequence of characters, each character a TLA+     *)
(* string.  The two sentinel brackets U+27E6 and U+27E7 are the characters *)
(* LBR and RBR.  Indexes are 1-based; 0 stands for JavaScript's -1.        *)
(***************************************************************************)
EXTENDS Integers, Sequences, FiniteSets, TLC

LBR == "[["
RBR == "]]"
DQ  == "\""
BSL == "\\"

\* JavaScript's \s, restricted to the whitespace the model's inputs use.
WS == {" ", "\n", "\t", "\r"}

Digits == <<"0","1","2","3","4","5","6","7","8","9">>

MinOf(S) == CHOOSE x \in S : \A y \in S : x <= y

\* String.prototype.startsWith(t, i)
StartsWith(s, t, i) ==
  /\ i >= 1
  /\ i + Len(t) - 1 <= Len(s)
  /\ SubSeq(s, i, i + Len(t) - 1) = t

\* String.prototype.indexOf(t, from)
IndexFrom(s, t, from) ==
  LET c == {i \in from..(Len(s) - Len(t) + 1) : StartsWith(s, t, i)}
  IN IF c = {} THEN 0 ELSE MinOf(c)

IndexOf(s, t) == IndexFrom(s, t, 1)

\* String.prototype.slice(i) for a 1-based i
Rest(s, i) == SubSeq(s, i, Len(s))

(***************************************************************************)
(* JSON values and JSON.parse / JSON.stringify.                            *)
(* A value is a record [t, s, n, a]: t the type, s the characters of a     *)
(* string, n the number, a the items of an array or the <<key, value>>     *)
(* entries of an object (in insertion order).                              *)
(***************************************************************************)
JNull      == [t |-> "null", s |-> <<>>, n |-> 0, a |-> <<>>]
JTrue      == [t |-> "true", s |-> <<>>, n |-> 0, a |-> <<>>]
JFalse     == [t |-> "false", s |-> <<>>, n |-> 0, a |-> <<>>]
JStr(s)    == [t |-> "str", s |-> s, n |-> 0, a |-> <<>>]
JNum(n)    == [t |-> "num", s |-> <<>>, n |-> n, a |-> <<>>]
JArr(a)    == [t |-> "arr", s |-> <<>>, n |-> 0, a |-> a]
JObj(a)    == [t |-> "obj", s |-> <<>>, n |-> 0, a |-> a]
\* JavaScript's undefined (a missing property, an empty cache slot)
JUndefined == [t |-> "undefined", s |-> <<>>, n |-> 0, a |-> <<>>]

KV(k, v) == [k |-> k, v |-> v]

\* obj[k] of a JavaScript object; undefined when the key is absent or the
\* value is no object.
JGet(o, k) ==
  IF o.t # "obj" THEN JUndefined
  ELSE LET hit == {i \in 1..Len(o.a) : o.a[i].k = k}
       IN IF hit = {} THEN JUndefined ELSE o.a[MinOf(hit)].v

\* An object's entries after obj[k] = v: a repeated key keeps its place.
JPut(entries, k, v) ==
  LET hit == {i \in 1..Len(entries) : entries[i].k = k}
  IN IF hit = {} THEN Append(entries, KV(k, v))
     ELSE [entries EXCEPT ![MinOf(hit)] = KV(k, v)]

PFail == [ok |-> FALSE, val |-> JNull, next |-> 0]
POk(v, next) == [ok |-> TRUE, val |-> v, next |-> next]

RECURSIVE SkipWs(_, _)
SkipWs(s, i) == IF i <= Len(s) /\ s[i] \in WS THEN SkipWs(s, i + 1) ELSE i

DigitVal(c) == MinOf({d \in 1..10 : Digits[d] = c}) - 1
IsDigit(c) == \E d \in 1..10 : Digits[d] = c

\* The digits of a number from index i: [n, next]
RECURSIVE ParseDigits(_, _, _)
ParseDigits(s, i, acc) ==
  IF i <= Len(s) /\ IsDigit(s[i])
  THEN ParseDigits(s, i + 1, acc * 10 + DigitVal(s[i]))
  ELSE [n |-> acc, next |-> i]

\* A JSON number (integers only): -? (0 | [1-9][0-9]*)
ParseNumber(s, i) ==
  LET neg == i <= Len(s) /\ s[i] = "-"
      j   == IF neg THEN i + 1 ELSE i
  IN IF j > Len(s) \/ ~IsDigit(s[j]) THEN PFail
     ELSE IF s[j] = "0"
          THEN IF j + 1 <= Len(s) /\ IsDigit(s[j + 1]) THEN PFail
               ELSE POk(JNum(0), j + 1)
          ELSE LET d == ParseDigits(s, j, 0)
               IN POk(JNum(IF neg THEN 0 - d.n ELSE d.n), d.next)

\* The characters a JSON two-character escape stands for.
SimpleEscapes == {DQ, BSL, "/", "b", "f", "n", "r", "t"}
Unescape(c) ==
  CASE c = "n" -> "\n"
    [] c = "t" -> "\t"
    [] c = "r" -> "\r"
    [] c = "b" -> "\\b"
    [] c = "f" -> "\\f"
    [] OTHER -> c

\* \uXXXX: the two sentinel brackets decode to LBR and RBR, the only code
\* points the inputs use in escaped form.
UnicodeEscape(hex) ==
  CASE hex = <<"2","7","E","6">> -> <<LBR>>
    [] hex = <<"2","7","E","7">> -> <<RBR>>
    [] OTHER -> <<BSL, "u">> \o hex

\* The body of a string literal from index i (after the opening quote).
RECURSIVE ParseStringBody(_, _, _)
ParseStringBody(s, i, acc) ==
  IF i > Len(s) THEN PFail
  ELSE IF s[i] = DQ THEN POk(JStr(acc), i + 1)
  ELSE IF s[i] \in {"\n", "\t", "\r"} THEN PFail
  ELSE IF s[i] = BSL THEN
    IF i + 1 > Len(s) THEN PFail
    ELSE IF s[i + 1] = "u" THEN
      IF i + 5 > Len(s) THEN PFail
      ELSE ParseStringBody(s, i + 6, acc \o UnicodeEscape(SubSeq(s, i + 2, i + 5)))
    ELSE IF s[i + 1] \in SimpleEscapes
      THEN ParseStringBody(s, i + 2, Append(acc, Unescape(s[i + 1])))
      ELSE PFail
  ELSE ParseStringBody(s, i + 1, Append(acc, s[i]))

RECURSIVE ParseValue(_, _), ParseItems(_, _, _), ParseEntries(_, _, _)

\* One JSON value that starts at index i.
ValueAt(s, i) ==
  IF i > Len(s) THEN PFail
  ELSE IF s[i] = DQ THEN ParseStringBody(s, i + 1, <<>>)
  ELSE IF s[i] = "{" THEN
    LET j == SkipWs(s, i + 1)
    IN IF j <= Len(s) /\ s[j] = "}" THEN POk(JObj(<<>>), j + 1)
       ELSE ParseEntries(s, j, <<>>)
  ELSE IF s[i] = "[" THEN
    LET j == SkipWs(s, i + 1)
    IN IF j <= Len(s) /\ s[j] = "]" THEN POk(JArr(<<>>), j + 1)
       ELSE ParseItems(s, j, <<>>)
  ELSE IF StartsWith(s, <<"t","r","u","e">>, i) THEN POk(JTrue, i + 4)
  ELSE IF StartsWith(s, <<"f","a","l","s","e">>, i) THEN POk(JFalse, i + 5)
  ELSE IF StartsWith(s, <<"n","u","l","l">>, i) THEN POk(JNull, i + 4)
  ELSE ParseNumber(s, i)

\* One JSON value from index i0, leading whitespace skipped.
ParseValue(s, i0) == ValueAt(s, SkipWs(s, i0))

\* What follows the item v of an array: its end or the next item.
ItemsAfter(s, acc, v) ==
  IF ~v.ok THEN PFail
  ELSE LET j == SkipWs(s, v.next) IN
    IF j > Len(s) THEN PFail
    ELSE IF s[j] = "]" THEN POk(JArr(Append(acc, v.val)), j + 1)
    ELSE IF s[j] = "," THEN ParseItems(s, j + 1, Append(acc, v.val))
    ELSE PFail

\* value (, value)* ]
ParseItems(s, i, acc) == ItemsAfter(s, acc, ParseValue(s, i))

\* What follows the entry k : v of an object: its end or the next entry.
EntriesAfter(s, acc, j) ==
  IF j > Len(s) THEN PFail
  ELSE IF s[j] = "}" THEN POk(JObj(acc), j + 1)
  ELSE IF s[j] = "," THEN ParseEntries(s, j + 1, acc)
  ELSE PFail

\* The entry of key k once its value v is parsed.
EntryValue(s, acc, k, v) ==
  IF ~v.ok THEN PFail
  ELSE EntriesAfter(s, JPut(acc, k.val.s, v.val), SkipWs(s, v.next))

\* The colon and the value after the key k.
EntryKey(s, acc, k, c) ==
  IF ~k.ok \/ c > Len(s) \/ s[c] # ":" THEN PFail
  ELSE EntryValue(s, acc, k, ParseValue(s, c + 1))

\* An entry that starts at index i.
EntryAt(s, i, acc, k) == EntryKey(s, acc, k, IF k.ok THEN SkipWs(s, k.next) ELSE 0)

\* "key" : value (, "key" : value)* }
ParseEntries(s, i0, acc) ==
  LET i == SkipWs(s, i0) IN
  IF i > Len(s) \/ s[i] # DQ THEN PFail
  ELSE EntryAt(s, i, acc, ParseStringBody(s, i + 1, <<>>))

\* The result of JSON.parse once the value v at the start of s is parsed.
WholeValue(s, v) ==
  IF v.ok /\ SkipWs(s, v.next) = Len(s) + 1
  THEN [ok |-> TRUE, val |-> v.val]
  ELSE [ok |-> FALSE, val |-> JNull]

\* JSON.parse(text): ok is FALSE where JSON.parse throws.
JSONParse(s) == WholeValue(s, ParseValue(s, 1))

RECURSIVE NatDigits(_)
NatDigits(n) ==
  IF n < 10 THEN <<Digits[n + 1]>>
  ELSE Append(NatDigits(n \div 10), Digits[(n % 10) + 1])

\* The characters JSON.stringify writes for one character of a string.
QuoteChar(c) ==
  CASE c = DQ -> <<BSL, DQ>>
    [] c = BSL -> <<BSL, BSL>>
    [] c = "\n" -> <<BSL, "n">>
    [] c = "\t" -> <<BSL, "t">>
    [] c = "\r" -> <<BSL, "r">>
    [] OTHER -> <<c>>

RECURSIVE QuoteChars(_)
QuoteChars(s) ==
  IF s = <<>> THEN <<>> ELSE QuoteChar(Head(s)) \o QuoteChars(Tail(s))

QuoteString(s) == <<DQ>> \o QuoteChars(s) \o <<DQ>>

RECURSIVE JSONStringify(_), StringifyItems(_), StringifyEntries(_)

\* JSON.stringify(value), for a value that is not undefined.
JSONStringify(v) ==
  CASE v.t = "null" -> <<"n","u","l","l">>
    [] v.t = "true" -> <<"t","r","u","e">>
    [] v.t = "false" -> <<"f","a","l","s","e">>
    [] v.t = "str" -> QuoteString(v.s)
    [] v.t = "num" -> IF v.n < 0 THEN <<"-">> \o NatDigits(0 - v.n) ELSE NatDigits(v.n)
    [] v.t = "arr" -> <<"[">> \o StringifyItems(v.a) \o <<"]">>
    [] v.t = "obj" -> <<"{">> \o StringifyEntries(v.a) \o <<"}">>
    [] OTHER -> <<>>

\* Inside an array undefined is written as null.
StringifyItems(a) ==
  IF a = <<>> THEN <<>>
  ELSE (IF Head(a).t = "undefined" THEN <<"n","u","l","l">> ELSE JSONStringify(Head(a)))
       \o (IF Len(a) > 1 THEN <<",">> ELSE <<>>) \o StringifyItems(Tail(a))

\* A property whose value is undefined is left out.
StringifyEntries(a) ==
  IF a = <<>> THEN <<>>
  ELSE LET rest == StringifyEntries(Tail(a)) IN
    IF Head(a).v.t = "undefined" THEN rest
    ELSE QuoteString(Head(a).k) \o <<":">> \o JSONStringify(Head(a).v)
         \o (IF rest # <<>> THEN <<",">> ELSE <<>>) \o rest

(***************************************************************************)
(* FrameStream: the sentinel tokenizer and frame demultiplexer.            *)
(***************************************************************************)
SENT_BEGIN_OBJECT == <<LBR,"B","E","G","I","N","_","O","B","J","E","C","T">>
SENT_END_OBJECT   == <<LBR,"E","N","D","_","O","B","J","E","C","T">>
SENT_BEGIN_TOOL   == <<LBR,"B","E","G","I","N","_","T","O","O","L","_","C","A","L","L">>
SENT_END_TOOL     == <<LBR,"E","N","D","_","T","O","O","L","_","C","A","L","L">>
SENT_BEGIN_RESULT == <<LBR,"B","E","G","I","N","_","R","E","S","U","L","T">>
SENT_END_RESULT   == <<LBR,"E","N","D","_","R","E","S","U","L","T">>
SENT_END          == <<RBR>>

\* FrameEvent, one record shape for every type; the fields a type does not
\* have stay at these values.
NoEvent == [type |-> "none", id |-> <<>>, name |-> <<>>, chunk |-> <<>>,
            length |-> 0, args |-> JNull, result |-> JNull, code |-> ""]
TextDelta(text)        == [NoEvent EXCEPT !.type = "text.delta", !.chunk = text]
JsonBegin(id, schema)  == [NoEvent EXCEPT !.type = "json.begin", !.id = id, !.name = schema]
JsonDelta(id, chunk)   == [NoEvent EXCEPT !.type = "json.delta", !.id = id, !.chunk = chunk]
JsonEnd(id, length)    == [NoEvent EXCEPT !.type = "json.end", !.id = id, !.length = length]
ToolCall(id, name, args) ==
  [NoEvent EXCEPT !.type = "tool.call", !.id = id, !.name = name, !.args = args]
ToolResult(id, name, result) ==
  [NoEvent EXCEPT !.type = "tool.result", !.id = id, !.name = name, !.result = result]
ResultBegin(id, schema) == [NoEvent EXCEPT !.type = "result.begin", !.id = id, !.name = schema]
ResultDelta(id, chunk)  == [NoEvent EXCEPT !.type = "result.delta", !.id = id, !.chunk = chunk]
ResultEnd(id, length)   == [NoEvent EXCEPT !.type = "result.end", !.id = id, !.length = length]

\* ActiveFrame | null; name is the schema of an object or result frame and
\* the tool name of a tool frame.
NoFrame == [kind |-> "none", id |-> <<>>, name |-> <<>>, buf |-> <<>>]
Frame(kind, id, name) == [kind |-> kind, id |-> id, name |-> name, buf |-> <<>>]

\* The first index from i on whose character the scan acts on, 0 if none:
\* inside a string a backslash or a quote, outside one a quote or the
\* start of the token.  The characters before it change nothing.
NextActing(s, token, i, inString) ==
  LET c == {j \in i..Len(s) :
              IF inString THEN s[j] \in {BSL, DQ}
              ELSE s[j] = DQ \/ StartsWith(s, token, j)}
  IN IF c = {} THEN 0 ELSE MinOf(c)

RECURSIVE ScanOutsideStrings(_, _, _, _, _)

\* One iteration of the scan, at the index j it acts on (0: none is left).
ScanAt(s, token, j, inString, escaped) ==
  IF j = 0 THEN 0
  ELSE IF inString THEN
    IF s[j] = BSL THEN ScanOutsideStrings(s, token, j + 1, TRUE, TRUE)
    ELSE ScanOutsideStrings(s, token, j + 1, FALSE, FALSE)
  ELSE IF s[j] = DQ THEN ScanOutsideStrings(s, token, j + 1, TRUE, escaped)
  ELSE j

\* The scan of indexOfTokenOutsideStrings from index i.
ScanOutsideStrings(s, token, i, inString, escaped) ==
  IF i > Len(s) THEN 0
  ELSE IF inString /\ escaped THEN ScanOutsideStrings(s, token, i + 1, TRUE, FALSE)
  ELSE ScanAt(s, token, NextActing(s, token, i, inString), inString, escaped)

\* Every call starts outside a string: the scan keeps nothing between calls.
indexOfTokenOutsideStrings(s, token) == ScanOutsideStrings(s, token, 1, FALSE, FALSE)

EndToken(kind) ==
  IF kind = "object" THEN SENT_END_OBJECT
  ELSE IF kind = "tool" THEN SENT_END_TOOL
  ELSE SENT_END_RESULT

\* The events for body text that arrives with no end sentinel in the buffer.
DeltaEvents(f, delta) ==
  IF f.kind = "object" THEN <<JsonDelta(f.id, delta)>>
  ELSE IF f.kind = "result" THEN <<ResultDelta(f.id, delta)>>
  ELSE <<>>

\* "try { args = JSON.parse(...) } catch { args = null }" and the tool.call
ToolCallEvents(f, p) == <<ToolCall(f.id, f.name, IF p.ok THEN p.val ELSE JNull)>>

\* EndEvents with the object branch taken for result frames too.
EndEvents_ObjectForResult(f, jsonChunk) ==
  IF f.kind = "tool" THEN ToolCallEvents(f, JSONParse(f.buf))
  ELSE
    (IF Len(jsonChunk) > 0 THEN <<JsonDelta(f.id, jsonChunk)>> ELSE <<>>)
    \o <<JsonEnd(f.id, Len(f.buf))>>

\* EndEvents without the tests of jsonChunk.length.
EndEvents_AlwaysDelta(f, jsonChunk) ==
  IF f.kind = "object" THEN <<JsonDelta(f.id, jsonChunk), JsonEnd(f.id, Len(f.buf))>>
  ELSE IF f.kind = "tool" THEN ToolCallEvents(f, JSONParse(f.buf))
  ELSE IF f.kind = "result" THEN <<ResultDelta(f.id, jsonChunk), ResultEnd(f.id, Len(f.buf))>>
  ELSE <<>>

\* EndEvents with the length of the last chunk reported as the length.
EndEvents_ChunkLength(f, jsonChunk) ==
  IF f.kind = "object" THEN
    (IF Len(jsonChunk) > 0 THEN <<JsonDelta(f.id, jsonChunk)>> ELSE <<>>)
    \o <<JsonEnd(f.id, Len(jsonChunk))>>
  ELSE IF f.kind = "tool" THEN ToolCallEvents(f, JSONParse(f.buf))
  ELSE IF f.kind = "result" THEN
    (IF Len(jsonChunk) > 0 THEN <<ResultDelta(f.id, jsonChunk)>> ELSE <<>>)
    \o <<ResultEnd(f.id, Len(jsonChunk))>>
  ELSE <<>>

\* The events at the end sentinel of frame f, its buf complete.
EndEvents(f, jsonChunk) ==
  IF f.kind = "object" THEN
    (IF Len(jsonChunk) > 0 THEN <<JsonDelta(f.id, jsonChunk)>> ELSE <<>>)
    \o <<JsonEnd(f.id, Len(f.buf))>>
  ELSE IF f.kind = "tool" THEN ToolCallEvents(f, JSONParse(f.buf))
  ELSE IF f.kind = "result" THEN
    (IF Len(jsonChunk) > 0 THEN <<ResultDelta(f.id, jsonChunk)>> ELSE <<>>)
    \o <<ResultEnd(f.id, Len(f.buf))>>
  ELSE <<>>

\* The earliest begin sentinel in the buffer: [idx, token], idx 0 if none.
NextBegin(buffer) ==
  LET begins == <<SENT_BEGIN_OBJECT, SENT_BEGIN_TOOL, SENT_BEGIN_RESULT>>
      step(acc, t) ==
        LET i == IndexOf(buffer, t)
        IN IF i # 0 /\ (acc.idx = 0 \/ i < acc.idx) THEN [idx |-> i, token |-> t] ELSE acc
  IN step(step(step([idx |-> 0, token |-> <<>>], begins[1]), begins[2]), begins[3])

\* The index after the longest run from i of characters that are neither
\* whitespace nor in excl: the regular expression's [^...\s]+
RECURSIVE RunEnd(_, _, _)
RunEnd(s, i, excl) ==
  IF i <= Len(s) /\ s[i] \notin WS /\ s[i] \notin excl
  THEN RunEnd(s, i + 1, excl) ELSE i

NoMatch == [ok |-> FALSE, id |-> <<>>, val |-> <<>>]

\* /<kw>([^\s]+)<key2>([^RBR\s]+)/ tried at index p of the header.
MatchAt(header, p, kw, key2) ==
  IF ~StartsWith(header, kw, p) THEN NoMatch
  ELSE LET a == p + Len(kw)
           b == RunEnd(header, a, {})
       IN IF b = a \/ ~StartsWith(header, key2, b) THEN NoMatch
          ELSE LET c == b + Len(key2)
                   d == RunEnd(header, c, {RBR})
               IN IF d = c THEN NoMatch
                  ELSE [ok |-> TRUE, id |-> SubSeq(header, a, b - 1),
                        val |-> SubSeq(header, c, d - 1)]

\* header.match(regex): the leftmost match.
HeaderMatch(header, kw, key2) ==
  LET hits == {p \in 1..Len(header) : MatchAt(header, p, kw, key2).ok}
  IN IF hits = {} THEN NoMatch ELSE MatchAt(header, MinOf(hits), kw, key2)

KW_OBJECT == <<"B","E","G","I","N","_","O","B","J","E","C","T"," ","i","d","=">>
KW_TOOL   == <<"B","E","G","I","N","_","T","O","O","L","_","C","A","L","L"," ","i","d","=">>
KW_RESULT == <<"B","E","G","I","N","_","R","E","S","U","L","T"," ","i","d","=">>
KEY_SCHEMA == <<" ","s","c","h","e","m","a","=">>
KEY_NAME   == <<" ","n","a","m","e","=">>

\* The frame a complete header opens and the events it emits.
ParseHeader(token, header) ==
  IF token = SENT_BEGIN_OBJECT THEN
    LET m == HeaderMatch(header, KW_OBJECT, KEY_SCHEMA)
    IN IF m.ok THEN [frame |-> Frame("object", m.id, m.val), events |-> <<JsonBegin(m.id, m.val)>>]
       ELSE [frame |-> NoFrame, events |-> <<>>]
  ELSE IF token = SENT_BEGIN_TOOL THEN
    LET m == HeaderMatch(header, KW_TOOL, KEY_NAME)
    IN IF m.ok THEN [frame |-> Frame("tool", m.id, m.val), events |-> <<>>]
       ELSE [frame |-> NoFrame, events |-> <<>>]
  ELSE
    LET m == HeaderMatch(header, KW_RESULT, KEY_SCHEMA)
    IN IF m.ok THEN [frame |-> Frame("result", m.id, m.val), events |-> <<ResultBegin(m.id, m.val)>>]
       ELSE [frame |-> NoFrame, events |-> <<>>]

RECURSIVE process(_)

\* The branch of process inside a frame: idx is where the frame's end
\* sentinel starts in the buffer, 0 if it is not there.
processFrame(st, endToken, idx) ==
  IF idx = 0 THEN
    IF Len(st.buffer) > 0
    THEN [buffer |-> <<>>,
          frame |-> [st.frame EXCEPT !.buf = @ \o st.buffer],
          out |-> st.out \o DeltaEvents(st.frame, st.buffer)]
    ELSE st
  ELSE
    LET jsonChunk == SubSeq(st.buffer, 1, idx - 1)
    IN process([buffer |-> Rest(st.buffer, idx + Len(endToken)),
                frame |-> NoFrame,
                out |-> st.out \o EndEvents([st.frame EXCEPT !.buf = @ \o jsonChunk], jsonChunk)])

\* The header is complete: h is what ParseHeader made of it.
processHeader(buffer, out, h) ==
  process([buffer |-> buffer, frame |-> h.frame, out |-> out \o h.events])

\* The buffer buf1 starts with a begin sentinel; endHeader is where the
\* end of its header starts, 0 if it is not there.
processBegin(buf1, out1, token, endHeader) ==
  IF endHeader = 0 THEN [buffer |-> buf1, frame |-> NoFrame, out |-> out1]
  ELSE processHeader(Rest(buf1, endHeader + Len(SENT_END)), out1,
                     ParseHeader(token, SubSeq(buf1, 1, endHeader + Len(SENT_END) - 1)))

\* processText that keeps text holding the start of a sentinel in the
\* buffer until a begin sentinel is found.
processText_HoldsBracket(st, nb) ==
  IF nb.idx = 0 THEN
    IF Len(st.buffer) > 0 /\ IndexOf(st.buffer, <<LBR>>) = 0
    THEN [buffer |-> <<>>, frame |-> NoFrame,
          out |-> Append(st.out, TextDelta(st.buffer))]
    ELSE st
  ELSE
    processBegin(Rest(st.buffer, nb.idx),
                 IF nb.idx > 1
                 THEN Append(st.out, TextDelta(SubSeq(st.buffer, 1, nb.idx - 1)))
                 ELSE st.out,
                 nb.token,
                 IndexOf(Rest(st.buffer, nb.idx), SENT_END))

\* The branch of process outside any frame: nb is the earliest begin
\* sentinel in the buffer.
processText(st, nb) ==
  IF nb.idx = 0 THEN
    IF Len(st.buffer) > 0
    THEN [buffer |-> <<>>, frame |-> NoFrame,
          out |-> Append(st.out, TextDelta(st.buffer))]
    ELSE st
  ELSE
    processBegin(Rest(st.buffer, nb.idx),
                 IF nb.idx > 1
                 THEN Append(st.out, TextDelta(SubSeq(st.buffer, 1, nb.idx - 1)))
                 ELSE st.out,
                 nb.token,
                 IndexOf(Rest(st.buffer, nb.idx), SENT_END))

\* FrameStream.process on st = [buffer, frame, out]; out collects the events
\* passed to the emit callback.
process(st) ==
  IF st.frame.kind # "none"
  THEN processFrame(st, EndToken(st.frame.kind),
                    indexOfTokenOutsideStrings(st.buffer, EndToken(st.frame.kind)))
  ELSE processText(st, NextBegin(st.buffer))

\* FrameStream.ingest(chunk) on the parser state [buffer, frame]: the state
\* after it and the events emitted.
ingest(buffer, frame, chunk) ==
  process([buffer |-> buffer \o chunk, frame |-> frame, out |-> <<>>])

(***************************************************************************)
(* The sentinel texts the session controller and the provider write.       *)
(***************************************************************************)
ID_EQ == <<" ","i","d","=">>
BeginObjectText(id, schema) == SENT_BEGIN_OBJECT \o ID_EQ \o id \o KEY_SCHEMA \o schema \o SENT_END
EndObjectText(id)           == SENT_END_OBJECT \o ID_EQ \o id \o SENT_END
BeginToolText(id, name)     == SENT_BEGIN_TOOL \o ID_EQ \o id \o KEY_NAME \o name \o SENT_END
EndToolText(id)             == SENT_END_TOOL \o ID_EQ \o id \o SENT_END
BeginResultText(id, schema) == SENT_BEGIN_RESULT \o ID_EQ \o id \o KEY_SCHEMA \o schema \o SENT_END
EndResultText(id)           == SENT_END_RESULT \o ID_EQ \o id \o SENT_END

(***************************************************************************)
(* Traces of events.                                                       *)
(***************************************************************************)
IsDelta(e) == e.type \in {"text.delta", "json.delta", "result.delta"}

\* The trace with event e added: a delta that follows a delta of the same
\* type and id extends it.
AddEvent(tr, e) ==
  IF /\ IsDelta(e) /\ Len(tr) > 0
     /\ tr[Len(tr)].type = e.type /\ tr[Len(tr)].id = e.id
  THEN [tr EXCEPT ![Len(tr)].chunk = @ \o e.chunk]
  ELSE Append(tr, e)

RECURSIVE AddEvents(_, _)
AddEvents(tr, es) ==
  IF es = <<>> THEN tr ELSE AddEvents(AddEvent(tr, Head(es)), Tail(es))

\* The frame lifecycle events of a trace (text.delta left out).
RECURSIVE FrameEvents(_)
FrameEvents(tr) ==
  IF tr = <<>> THEN <<>>
  ELSE IF Head(tr).type = "text.delta" THEN FrameEvents(Tail(tr))
  ELSE <<Head(tr)>> \o FrameEvents(Tail(tr))

(***************************************************************************)
(* EventQueue and its byte sink reply.raw.                                 *)
(*                                                                         *)
(* One record w holds both.  Of the EventQueue: queue, flushing, closed.   *)
(* Of the suspended async calls: tickWaiters, the send() calls inside the  *)
(* one-millisecond wait, and waiters, the calls that await the running     *)
(* flush(); each entry says what its caller does next ("none": nothing,    *)
(* "end": close() goes on to reply.raw.end(), "thenClose": the caller goes *)
(* on to queue.close()).  Of the sink: log, the writes in order; stalled,  *)
(* whether the socket has stopped taking data (the client does not read);  *)
(* buffered, the writes made since then; needDrain; ended; stalls, how     *)
(* often the socket has stalled.                                           *)
(* Between two steps flushing is TRUE exactly when a flush() is suspended  *)
(* in onceDrain.                                                           *)
(***************************************************************************)
\* The writes a stalled sink buffers before write() returns false.
SinkHighWater == 2

\* maxChunks of the EventQueue under check, scaled down from 128.
MaxChunks == 1

Item(event, data) == [event |-> event, data |-> data]

NewQueue ==
  [queue |-> <<>>, flushing |-> FALSE, closed |-> FALSE,
   tickWaiters |-> <<>>, waiters |-> <<>>,
   log |-> <<>>, stalled |-> FALSE, buffered |-> 0, needDrain |-> FALSE, ended |-> FALSE,
   stalls |-> 0]

LogLine(line, item, late) == [line |-> line, item |-> item, late |-> late]

\* What reply.raw.write returns: false on an ended response and when the
\* write fills the buffer of a stalled socket.
WriteOk(w) == ~w.ended /\ (~w.stalled \/ w.buffered + 1 < SinkHighWater)

\* reply.raw.write(line)
SinkWrite(w, line, item) ==
  IF w.ended
  THEN [w EXCEPT !.log = Append(@, LogLine(line, item, TRUE))]
  ELSE [w EXCEPT !.log = Append(@, LogLine(line, item, FALSE)),
                 !.buffered = IF w.stalled THEN @ + 1 ELSE @,
                 !.needDrain = @ \/ ~WriteOk(w)]

\* reply.raw.end()
SinkEnd(w) ==
  IF w.ended THEN w
  ELSE [w EXCEPT !.ended = TRUE, !.log = Append(@, LogLine("end", Item("", NoEvent), FALSE))]

RECURSIVE FlushLoop(_), RunWaiters(_), CloseCall(_)

\* The while loop of flush() from its top, flushing already TRUE: it runs
\* until the queue is empty or a write returns false, where it is left
\* suspended in onceDrain.
FlushLoop(w) ==
  IF w.queue = <<>> THEN RunWaiters([w EXCEPT !.flushing = FALSE])
  ELSE
    LET item == Head(w.queue)
        w0 == [w EXCEPT !.queue = Tail(@)]
        ok1 == WriteOk(w0)
        w1 == SinkWrite(w0, "event", item)
        ok2 == WriteOk(w1)
        w2 == SinkWrite(w1, "data", item)
    IN IF ~ok1 \/ ~ok2 THEN w2 ELSE FlushLoop(w2)

\* The calls that awaited the flush go on, in the order they began to wait.
RunWaiters(w) ==
  IF w.waiters = <<>> THEN w
  ELSE
    LET tag == Head(w.waiters)
        w1 == [w EXCEPT !.waiters = Tail(@)]
    IN IF tag = "end" THEN RunWaiters(SinkEnd(w1))
       ELSE IF tag = "thenClose" THEN RunWaiters(CloseCall(w1))
       ELSE RunWaiters(w1)

\* EventQueue.close()
CloseCall(w) ==
  LET w1 == [w EXCEPT !.closed = TRUE]
  IN IF w1.flushing THEN SinkEnd(w1)
     ELSE FlushLoop([w1 EXCEPT !.flushing = TRUE, !.waiters = Append(@, "end")])

\* What the caller of an async call does once the call has returned.
Continue(w, tag) == IF tag = "thenClose" THEN CloseCall(w) ELSE w

\* send() from "if (!this.flushing) await this.flush()" on.
SendFlush(w, tag) ==
  IF ~w.flushing
  THEN FlushLoop([w EXCEPT !.flushing = TRUE, !.waiters = Append(@, tag)])
  ELSE Continue(w, tag)

\* SendCall with the item put at the head of the queue.
SendCall_Unshift(w, item, tag) ==
  IF w.closed THEN Continue(w, tag)
  ELSE
    LET w1 == [w EXCEPT !.queue = <<item>> \o @]
    IN IF Len(w1.queue) > MaxChunks
       THEN [w1 EXCEPT !.tickWaiters = Append(@, tag)]
       ELSE SendFlush(w1, tag)

\* EventQueue.send(event, data) up to its first suspension.
SendCall(w, item, tag) ==
  IF w.closed THEN Continue(w, tag)
  ELSE
    LET w1 == [w EXCEPT !.queue = Append(@, item)]
    IN IF Len(w1.queue) > MaxChunks
       THEN [w1 EXCEPT !.tickWaiters = Append(@, tag)]
       ELSE SendFlush(w1, tag)

\* The one-millisecond timer of the oldest waiting send() fires.
TickCall(w) == SendFlush([w EXCEPT !.tickWaiters = Tail(@)], Head(w.tickWaiters))

\* The socket stops taking data.
StallCall(w) == [w EXCEPT !.stalled = TRUE, !.stalls = @ + 1]

\* The socket takes the buffered writes and goes on taking data; no 'drain'
\* is emitted.
SocketFlush(w) == [w EXCEPT !.stalled = FALSE, !.buffered = 0, !.needDrain = FALSE]

\* The same, and 'drain' is emitted if a write has returned false: the
\* suspended flush() resumes.
DrainCall(w) ==
  IF w.needDrain /\ w.flushing THEN FlushLoop(SocketFlush(w)) ELSE SocketFlush(w)

(***************************************************************************)
(* Tools: the registry, the executors, the idempotency cache, execTool.    *)
(* A Map is the sequence of its entries in insertion order.                *)
(***************************************************************************)
TOOL_TIMEOUT_MS == 8000
TOOL_RETRIES == 1

T_PLACES_SEARCH   == <<"p","l","a","c","e","s",".","s","e","a","r","c","h">>
T_BOOKINGS_CREATE == <<"b","o","o","k","i","n","g","s",".","c","r","e","a","t","e">>
T_TEST_SLEEP      == <<"t","e","s","t",".","s","l","e","e","p">>
T_TEST_FAILONCE   == <<"t","e","s","t",".","f","a","i","l","O","n","c","e">>

\* The names ToolsRegistry has an executor for.
ToolsRegistry == {T_PLACES_SEARCH, T_BOOKINGS_CREATE, T_TEST_SLEEP, T_TEST_FAILONCE}

K_OK == <<"o","k">>
K_ATTEMPT == <<"a","t","t","e","m","p","t">>
K_SLEPT_MS == <<"s","l","e","p","t","_","m","s">>
K_MS == <<"m","s">>
K_ERROR == <<"e","r","r","o","r">>

\* `${v}` of what JSON.stringify returns: "undefined" for undefined
TemplateOfStringify(v) ==
  IF v.t = "undefined" THEN <<"u","n","d","e","f","i","n","e","d">> ELSE JSONStringify(v)

\* x ?? d
Coalesce(x, d) == IF x.t \in {"undefined", "null"} THEN d ELSE x

\* IdempotencyCache.keyFor; idempotencyKey is a string value or undefined
keyFor(idempotencyKey, toolName, args) ==
  Coalesce(idempotencyKey, JStr(<<>>)).s \o <<":",":">> \o toolName \o <<":",":">>
  \o TemplateOfStringify(args)

\* IdempotencyCache.get
CacheGet(cache, idempotencyKey, toolName, args) ==
  JGet(JObj(cache), keyFor(idempotencyKey, toolName, args))

\* IdempotencyCache.set
CacheSet(cache, idempotencyKey, toolName, args, value) ==
  JPut(cache, keyFor(idempotencyKey, toolName, args), value)

\* What one call of an executor comes to: a value or a throw at once, or a
\* value after ms milliseconds; seen is the executor's counter map after it.
Returned(val, seen) == [kind |-> "value", val |-> val, ms |-> 0, seen |-> seen]
Threw(msg, seen) == [kind |-> "throw", val |-> JStr(msg), ms |-> 0, seen |-> seen]
Sleeps(ms, val, seen) == [kind |-> "sleep", val |-> val, ms |-> ms, seen |-> seen]

\* String(err) of an Error with the message msg
ErrorString(msg) == <<"E","r","r","o","r",":"," ">> \o msg

MSG_FAIL_ONCE == <<"t","e","s","t","_","f","a","i","l","_","o","n","c","e",":"," ","s","i","m","u","l","a","t","e","d"," ","f","a","i","l","u","r","e">>
MSG_TOOL_TIMEOUT(name) == <<"t","o","o","l","_","t","i","m","e","o","u","t",":">> \o name
MSG_UNKNOWN_TOOL(name) == <<"U","n","k","n","o","w","n"," ","t","o","o","l",":"," ">> \o name

\* executeTestFailOnce
executeTestFailOnce(args, seen) ==
  LET k == JSONStringify(Coalesce(args, JObj(<<>>)))
      count == Coalesce(JGet(JObj(seen), k), JNum(0)).n + 1
      seen1 == JPut(seen, k, JNum(count))
  IN IF count = 1 THEN Threw(MSG_FAIL_ONCE, seen1)
     ELSE Returned(JObj(<<KV(K_OK, JTrue), KV(K_ATTEMPT, JNum(count))>>), seen1)

\* executeTestSleep, for args whose ms is a number or absent
executeTestSleep(args, seen) ==
  LET ms == Coalesce(JGet(args, K_MS), JNum(0)).n
  IN Sleeps(ms, JObj(<<KV(K_OK, JTrue), KV(K_SLEPT_MS, JNum(ms))>>), seen)

\* fn(args, idempotencyKey) for the executors of the test tools
Execute(name, args, seen) ==
  IF name = T_TEST_FAILONCE THEN executeTestFailOnce(args, seen)
  ELSE executeTestSleep(args, seen)

\* result = { error: String(err) } of the callers of execTool
ErrorPayload(msg) == JObj(<<KV(K_ERROR, JStr(ErrorString(msg)))>>)

\* Arguments and an Idempotency-Key header the handler and its tests use.
A_KEY_K1 == JObj(<<KV(<<"k","e","y">>, JStr(<<"k","1">>))>>)
A_SLOW == JObj(<<KV(K_MS, JNum(TOOL_TIMEOUT_MS + 1000))>>)
HDR_K == JStr(<<"K">>)

\* One call of execTool: where it stands (pc), its arguments, the loop
\* variable attempt, the sleep and the value of a running executor, how
\* many executor promises outlive their timeout guard (late) and how many
\* times the executor has been invoked.
\*   pc: "idle", "exec" (inside await withTimeout), "backoff" (inside await
\*   delay), "returned", "threw"
IdleCall ==
  [pc |-> "idle", key |-> JUndefined, name |-> <<>>, args |-> JNull, attempt |-> 0,
   ms |-> 0, val |-> JNull, late |-> 0, invoked |-> 0]

ToolWorld(cache, seen, call) == [cache |-> cache, seen |-> seen, call |-> call]

\* The catch block without the test of attempt: it always tries again.
Caught_RetryAlways(c, msg) == [c EXCEPT !.pc = "backoff"]

\* The catch block of execTool's loop.
Caught(c, msg) ==
  IF c.attempt < TOOL_RETRIES THEN [c EXCEPT !.pc = "backoff"]
  ELSE [c EXCEPT !.pc = "threw", !.val = JStr(msg)]

\* One pass of the loop body up to its await: the executor is invoked
\* under withTimeout.
Attempt(cache, seen, c) ==
  LET o == Execute(c.name, c.args, seen)
      c1 == [c EXCEPT !.invoked = @ + 1]
  IN CASE o.kind = "value" ->
            ToolWorld(CacheSet(cache, c.key, c.name, c.args, o.val), o.seen,
                      [c1 EXCEPT !.pc = "returned", !.val = o.val])
       [] o.kind = "throw" -> ToolWorld(cache, o.seen, Caught(c1, o.val.s))
       [] OTHER -> ToolWorld(cache, o.seen, [c1 EXCEPT !.pc = "exec", !.ms = o.ms, !.val = o.val])

\* execTool without "if (!fn) throw": every name is taken to an executor.
execTool_NoRegistryCheck(cache, seen, key, name, args) ==
  IF CacheGet(cache, key, name, args).t # "undefined"
  THEN ToolWorld(cache, seen, [IdleCall EXCEPT !.key = key, !.name = name, !.args = args,
                                               !.pc = "returned",
                                               !.val = CacheGet(cache, key, name, args)])
  ELSE Attempt(cache, seen, [IdleCall EXCEPT !.key = key, !.name = name, !.args = args])

\* execTool with the idempotency cache read only when a key was given.
execTool_CacheOnlyWithKey(cache, seen, key, name, args) ==
  LET c == [IdleCall EXCEPT !.key = key, !.name = name, !.args = args]
      cached == CacheGet(cache, key, name, args)
  IN IF key.t # "undefined" /\ cached.t # "undefined"
     THEN ToolWorld(cache, seen, [c EXCEPT !.pc = "returned", !.val = cached])
     ELSE IF name \notin ToolsRegistry
     THEN ToolWorld(cache, seen, [c EXCEPT !.pc = "threw", !.val = JStr(MSG_UNKNOWN_TOOL(name))])
     ELSE Attempt(cache, seen, c)

\* execTool without the look-up in the idempotency cache.
execTool_IgnoreCache(cache, seen, key, name, args) ==
  LET c == [IdleCall EXCEPT !.key = key, !.name = name, !.args = args]
  IN IF name \notin ToolsRegistry
     THEN ToolWorld(cache, seen, [c EXCEPT !.pc = "threw", !.val = JStr(MSG_UNKNOWN_TOOL(name))])
     ELSE Attempt(cache, seen, c)

\* execTool(name, args, idempotencyKey) up to its first await
execTool(cache, seen, key, name, args) ==
  LET c == [IdleCall EXCEPT !.key = key, !.name = name, !.args = args]
      cached == CacheGet(cache, key, name, args)
  IN IF cached.t # "undefined"
     THEN ToolWorld(cache, seen, [c EXCEPT !.pc = "returned", !.val = cached])
     ELSE IF name \notin ToolsRegistry
     THEN ToolWorld(cache, seen, [c EXCEPT !.pc = "threw", !.val = JStr(MSG_UNKNOWN_TOOL(name))])
     ELSE Attempt(cache, seen, c)

\* The executor's promise resolves before the guard fires.
ExecutorDone(cache, seen, c) ==
  ToolWorld(CacheSet(cache, c.key, c.name, c.args, c.val), seen, [c EXCEPT !.pc = "returned"])

\* The guard of withTimeout fires first; the executor's promise stays
\* pending.
\* A guard that takes the executor's value when it fires.
GuardFired_TakesLateValue(cache, seen, c) ==
  ToolWorld(CacheSet(cache, c.key, c.name, c.args, c.val), seen,
            [c EXCEPT !.pc = "returned", !.late = @ + 1])

GuardFired(cache, seen, c) ==
  ToolWorld(cache, seen, Caught([c EXCEPT !.late = @ + 1], MSG_TOOL_TIMEOUT(c.name)))

\* The delay of the catch block is over: the next pass of the loop.
Retry(cache, seen, c) == Attempt(cache, seen, [c EXCEPT !.attempt = @ + 1])

\* try { result = await execTool(...) } catch (err) { result = { error: String(err) } }
ResultOf(c) == IF c.pc = "threw" THEN ErrorPayload(c.val.s) ELSE c.val

(***************************************************************************)
(* The session handler of POST /v1/stream.                                 *)
(*                                                                         *)
(* The operators below act on a bundle st of everything one handler can    *)
(* touch: its locals and timers (ses), its FrameStream (buffer, frame),    *)
(* the events it has passed to queue.send (trace), its EventQueue and sink *)
(* (eq), the process-wide idemCache and seen map (cache, seen), its        *)
(* execTool call (call) and the provider stream it reads (prov).           *)
(* Time is in milliseconds; a timer is the time left until it fires, or    *)
(* NoTimer.                                                                *)
(***************************************************************************)
FRAME_TIMEOUT_MS == 15000
HEARTBEAT_MS == 15000
\* the bound of the round loop of provider_tools_demo, scaled down from 5
MaxRounds == 2
\* the iterations of the loop of backpressure_test, scaled down from 200
BackpressureChunks == 2

NoTimer == -1

ID_O1 == <<"O","1">>
ID_T1 == <<"T","1">>
ID_T2 == <<"T","2">>
ID_R1 == <<"R","1">>
ID_R2 == <<"R","2">>
ID_R_FALLBACK == <<"R","_","F","A","L","L","B","A","C","K">>
S_ACTION == <<"A","c","t","i","o","n">>
S_ASSISTANT_REPLY == <<"A","s","s","i","s","t","a","n","t","R","e","p","l","y">>
K_ANSWER == <<"a","n","s","w","e","r">>
K_CITATIONS == <<"c","i","t","a","t","i","o","n","s">>
K_DIAGNOSTICS == <<"d","i","a","g","n","o","s","t","i","c","s">>
K_MODEL == <<"m","o","d","e","l">>
MODEL_ID == <<"g","p","t","-","o","s","s","-","2","0","b">>

(***************************************************************************)
(* Schemas, the schema registry, the validator and the repair module.      *)
(*                                                                         *)
(* A zod schema is a record: z its kind, min and max its bounds (<<>> for  *)
(* none), url the .url() check, opt set by .optional() and .default(),     *)
(* of the item schema of an array or the options of a union, fields the    *)
(* <<key, schema>> table of an object, lits the values of an enum or a     *)
(* literal.  Numbers are integers here, so .int() always holds.            *)
(***************************************************************************)
ZT(z) ==
  [z |-> z, min |-> <<>>, max |-> <<>>, url |-> FALSE, opt |-> FALSE,
   of |-> <<>>, fields |-> <<>>, lits |-> {}]
ZString == ZT("string")
ZStringMin(n) == [ZT("string") EXCEPT !.min = <<n>>]
ZUrl == [ZT("string") EXCEPT !.url = TRUE]
ZNumber(lo, hi) == [ZT("number") EXCEPT !.min = lo, !.max = hi]
ZBoolean == ZT("boolean")
ZAny == ZT("any")
ZEnum(lits) == [ZT("enum") EXCEPT !.lits = lits]
ZLiteral(lit) == [ZT("literal") EXCEPT !.lits = {lit}]
ZArray(s) == [ZT("array") EXCEPT !.of = <<s>>]
ZArrayMin(s, n) == [ZT("array") EXCEPT !.of = <<s>>, !.min = <<n>>]
ZObject(fields) == [ZT("object") EXCEPT !.fields = fields]
ZUnion(options) == [ZT("union") EXCEPT !.of = options]
\* .optional() and .default(d): a missing property passes
ZOptional(s) == [s EXCEPT !.opt = TRUE]

K_LAST_VALIDATOR_ERRORS == <<"l","a","s","t","_","v","a","l","i","d","a","t","o","r","_","e","r","r","o","r","s">>
K_TITLE == <<"t","i","t","l","e">>
K_URL == <<"u","r","l">>
K_ISSUES == <<"i","s","s","u","e","s">>
K_NAME == <<"n","a","m","e">>
K_CODE == <<"c","o","d","e">>
K_PATH == <<"p","a","t","h">>

AssistantReply ==
  ZObject(<<
    KV(K_ANSWER, ZString),
    KV(K_CITATIONS, ZOptional(ZArray(ZObject(<<KV(K_TITLE, ZString), KV(K_URL, ZUrl)>>)))),
    KV(K_DIAGNOSTICS, ZOptional(ZObject(<<
       KV(K_ERROR, ZString),
       KV(K_LAST_VALIDATOR_ERRORS, ZOptional(ZArray(ZAny)))>>)))>>)

PlacesSearch ==
  ZObject(<<
    KV(<<"q","u","e","r","y">>, ZStringMin(1)),
    KV(<<"r","a","d","i","u","s","_","k","m">>, ZOptional(ZNumber(<<1>>, <<50>>))),
    KV(<<"o","p","e","n","_","n","o","w">>, ZOptional(ZBoolean))>>)

BookingsCreate ==
  ZObject(<<
    KV(<<"p","l","a","c","e","_","i","d">>, ZStringMin(1)),
    KV(<<"t","i","m","e">>, ZStringMin(1)),
    KV(<<"p","a","r","t","y","_","s","i","z","e">>, ZOptional(ZNumber(<<1>>, <<12>>)))>>)

ComplexDemo ==
  ZObject(<<
    KV(<<"m","o","d","e">>, ZEnum({<<"s","e","a","r","c","h">>, <<"b","o","o","k">>})),
    KV(<<"t","a","r","g","e","t","s">>, ZArrayMin(ZUnion(<<
       ZObject(<<KV(<<"k","i","n","d">>, ZLiteral(<<"p","l","a","c","e">>)), KV(<<"i","d">>, ZString)>>),
       ZObject(<<KV(<<"k","i","n","d">>, ZLiteral(<<"t","i","m","e">>)), KV(<<"a","t">>, ZString)>>)>>), 1)),
    KV(<<"n","o","t","e","s">>, ZOptional(ZArray(ZString)))>>)

DeepCombo ==
  ZObject(<<
    KV(<<"m","e","t","a">>, ZObject(<<
       KV(<<"v","e","r","s","i","o","n">>, ZNumber(<<1>>, <<>>)),
       KV(<<"s","o","u","r","c","e">>, ZString)>>)),
    KV(<<"i","t","e","m","s">>, ZArrayMin(ZUnion(<<
       ZObject(<<KV(<<"k","i","n","d">>, ZLiteral(<<"A">>)), KV(<<"i","d">>, ZString),
                 KV(<<"w","e","i","g","h","t">>, ZNumber(<<0>>, <<>>))>>),
       ZObject(<<KV(<<"k","i","n","d">>, ZLiteral(<<"B">>)), KV(K_NAME, ZString),
                 KV(<<"t","a","g","s">>, ZOptional(ZArray(ZString)))>>),
       ZObject(<<KV(<<"k","i","n","d">>, ZLiteral(<<"C">>)), KV(<<"w","h","e","n">>, ZString),
                 KV(<<"p","r","i","o","r","i","t","y">>,
                    ZEnum({<<"l","o","w">>, <<"m","e","d","i","u","m">>, <<"h","i","g","h">>}))>>)>>), 1)),
    KV(<<"f","l","a","g","s">>, ZOptional(ZArray(ZEnum({<<"x">>, <<"y">>, <<"z">>}))))>>)

S_PLACES_SEARCH == <<"P","l","a","c","e","s","S","e","a","r","c","h">>
S_BOOKINGS_CREATE == <<"B","o","o","k","i","n","g","s","C","r","e","a","t","e">>
S_COMPLEX_DEMO == <<"C","o","m","p","l","e","x","D","e","m","o">>
S_DEEP_COMBO == <<"D","e","e","p","C","o","m","b","o">>

SchemaRegistry ==
  <<KV(S_PLACES_SEARCH, PlacesSearch), KV(S_ASSISTANT_REPLY, AssistantReply),
    KV(S_BOOKINGS_CREATE, BookingsCreate), KV(S_COMPLEX_DEMO, ComplexDemo),
    KV(S_DEEP_COMBO, DeepCombo)>>

\* Property names every object literal inherits from Object.prototype:
\* SchemaRegistry[name] is then a value that is no schema.
InheritedKeys ==
  {<<"c","o","n","s","t","r","u","c","t","o","r">>, <<"t","o","S","t","r","i","n","g">>,
   <<"v","a","l","u","e","O","f">>, <<"_","_","p","r","o","t","o","_","_">>}

Letters ==
  {"a","b","c","d","e","f","g","h","i","j","k","l","m","n","o","p","q","r","s","t","u","v","w","x","y","z",
   "A","B","C","D","E","F","G","H","I","J","K","L","M","N","O","P","Q","R","S","T","U","V","W","X","Y","Z"}

\* new URL(s) does not throw: s starts with a scheme and a colon (what
\* follows the colon is not looked at).
IsUrl(s) ==
  \E c \in 2..Len(s) :
    /\ s[c] = ":"
    /\ s[1] \in Letters
    /\ \A i \in 2..(c - 1) : s[i] \in Letters \/ IsDigit(s[i]) \/ s[i] \in {"+", "-", "."}

\* the codes of zod's issues
E_INVALID_TYPE == <<"i","n","v","a","l","i","d","_","t","y","p","e">>
E_TOO_SMALL == <<"t","o","o","_","s","m","a","l","l">>
E_TOO_BIG == <<"t","o","o","_","b","i","g">>
E_INVALID_STRING == <<"i","n","v","a","l","i","d","_","s","t","r","i","n","g">>
E_INVALID_LITERAL == <<"i","n","v","a","l","i","d","_","l","i","t","e","r","a","l">>
E_INVALID_ENUM_VALUE == <<"i","n","v","a","l","i","d","_","e","n","u","m","_","v","a","l","u","e">>
E_INVALID_UNION == <<"i","n","v","a","l","i","d","_","u","n","i","o","n">>

Issue(code, path) == JObj(<<KV(K_CODE, JStr(code)), KV(K_PATH, JArr(path))>>)

IssueIf(cond, code, path) == IF cond THEN <<Issue(code, path)>> ELSE <<>>

RECURSIVE ZIssues(_, _, _), ItemIssues(_, _, _, _), FieldIssues(_, _, _, _)

\* The issues schema.parse(v) collects: none when v passes.
ZIssues(s, v, path) ==
  CASE s.z = "any" -> <<>>
    [] s.z # "any" /\ v.t = "undefined" -> IssueIf(~s.opt, E_INVALID_TYPE, path)
    [] OTHER ->
      CASE s.z = "string" ->
             IF v.t # "str" THEN <<Issue(E_INVALID_TYPE, path)>>
             ELSE IssueIf(s.min # <<>> /\ Len(v.s) < s.min[1], E_TOO_SMALL, path)
                  \o IssueIf(s.url /\ ~IsUrl(v.s), E_INVALID_STRING, path)
        [] s.z = "number" ->
             IF v.t # "num" THEN <<Issue(E_INVALID_TYPE, path)>>
             ELSE IssueIf(s.min # <<>> /\ v.n < s.min[1], E_TOO_SMALL, path)
                  \o IssueIf(s.max # <<>> /\ v.n > s.max[1], E_TOO_BIG, path)
        [] s.z = "boolean" -> IssueIf(v.t \notin {"true", "false"}, E_INVALID_TYPE, path)
        [] s.z = "literal" -> IssueIf(v.t # "str" \/ v.s \notin s.lits, E_INVALID_LITERAL, path)
        [] s.z = "enum" ->
             IF v.t # "str" THEN <<Issue(E_INVALID_TYPE, path)>>
             ELSE IssueIf(v.s \notin s.lits, E_INVALID_ENUM_VALUE, path)
        [] s.z = "array" ->
             IF v.t # "arr" THEN <<Issue(E_INVALID_TYPE, path)>>
             ELSE IssueIf(s.min # <<>> /\ Len(v.a) < s.min[1], E_TOO_SMALL, path)
                  \o ItemIssues(s.of[1], v.a, path, 1)
        [] s.z = "object" ->
             IF v.t # "obj" THEN <<Issue(E_INVALID_TYPE, path)>>
             ELSE FieldIssues(s.fields, v, path, 1)
        [] OTHER ->
             IssueIf(\A i \in 1..Len(s.of) : ZIssues(s.of[i], v, path) # <<>>,
                     E_INVALID_UNION, path)

ItemIssues(s, items, path, i) ==
  IF i > Len(items) THEN <<>>
  ELSE ZIssues(s, items[i], Append(path, JNum(i - 1))) \o ItemIssues(s, items, path, i + 1)

FieldIssues(fields, v, path, i) ==
  IF i > Len(fields) THEN <<>>
  ELSE ZIssues(fields[i].v, JGet(v, fields[i].k), Append(path, JStr(fields[i].k)))
       \o FieldIssues(fields, v, path, i + 1)

\* What JSON.stringify, typeof and Array.isArray see of the errors thrown:
\* a ZodError has the own properties issues and name, a SyntaxError and a
\* TypeError have none.
ZodError(issues) == JObj(<<KV(K_ISSUES, JArr(issues)), KV(K_NAME, JStr(<<"Z","o","d","E","r","r","o","r">>))>>)
NativeError == JObj(<<>>)

Passed == [ok |-> TRUE, errors |-> JUndefined]
Failed(err) == [ok |-> FALSE, errors |-> err]

\* schema.parse(obj)
SchemaParse(schema, obj) ==
  IF ZIssues(schema, obj, <<>>) = <<>> THEN Passed
  ELSE Failed(ZodError(ZIssues(schema, obj, <<>>)))

RegistryHit(name) == {i \in 1..Len(SchemaRegistry) : SchemaRegistry[i].k = name}

\* const schema = SchemaRegistry[name]; if (schema) schema.parse(obj);
\* an inherited property is truthy and has no parse method: a TypeError
CheckSchema(name, obj) ==
  IF name \in InheritedKeys THEN Failed(NativeError)
  ELSE IF RegistryHit(name) = {} THEN Passed
  ELSE SchemaParse(SchemaRegistry[MinOf(RegistryHit(name))].v, obj)

\* The body of the try block of onJsonEnd and onResultEnd.
Validated(e) ==
  IF ~JSONParse(e.buf).ok THEN Failed(NativeError)
  ELSE CheckSchema(e.schema, JSONParse(e.buf).val)

\* new Validator(): jsonBuf and resultBuf as <<id, {schema, buf}>> entries
NewValidator == [json |-> <<>>, result |-> <<>>, notes |-> <<>>]

ValidationNote(id, kind, e, r) ==
  [frameId |-> id, schema |-> e.schema, ok |-> r.ok, errors |-> r.errors, kind |-> kind]

\* onJsonBegin, onResultBegin
onBegin(v, kind, id, schema) ==
  [v EXCEPT ![kind] = JPut(@, id, [schema |-> schema, buf |-> <<>>])]

\* onJsonDelta, onResultDelta
onDelta(v, kind, id, chunk) ==
  [v EXCEPT ![kind] = [i \in 1..Len(@) |->
     IF @[i].k = id THEN KV(id, [@[i].v EXCEPT !.buf = @ \o chunk]) ELSE @[i]]]

\* onEnd that keeps the note of the last frame only.
onEnd_LastNoteOnly(v, kind, id) ==
  LET hit == {i \in 1..Len(v[kind]) : v[kind][i].k = id}
  IN IF hit = {} THEN v
     ELSE [v EXCEPT ![kind] = SelectSeq(@, LAMBDA x : x.k # id),
                    !.notes = <<ValidationNote(id, kind, v[kind][MinOf(hit)].v,
                                               Validated(v[kind][MinOf(hit)].v))>>]

\* onJsonEnd, onResultEnd
onEnd(v, kind, id) ==
  LET hit == {i \in 1..Len(v[kind]) : v[kind][i].k = id}
  IN IF hit = {} THEN v
     ELSE [v EXCEPT ![kind] = SelectSeq(@, LAMBDA x : x.k # id),
                    !.notes = Append(@, ValidationNote(id, kind, v[kind][MinOf(hit)].v,
                                                       Validated(v[kind][MinOf(hit)].v)))]

\* String(x) of a value that is no object
StringOf(x) ==
  CASE x.t = "str" -> x.s
    [] x.t = "undefined" -> <<"u","n","d","e","f","i","n","e","d">>
    [] OTHER -> JSONStringify(x)

serializeErrors(errors) ==
  IF errors.t \in {"arr", "obj"} THEN errors ELSE JStr(StringOf(errors))

attemptRepair(errors) ==
  JObj(<<KV(K_ANSWER, JStr(<<>>)), KV(K_CITATIONS, JArr(<<>>)),
         KV(K_DIAGNOSTICS, JObj(<<
            KV(K_ERROR, JStr(<<"s","c","h","e","m","a","_","r","e","p","a","i","r","_","f","a","i","l","e","d">>)),
            KV(K_LAST_VALIDATOR_ERRORS, serializeErrors(errors))>>))>>)


NoPending == [set |-> FALSE, id |-> <<>>, name |-> <<>>, args |-> JNull]

NoTimers ==
  [frame |-> NoTimer, delay |-> NoTimer, hb |-> NoTimer, exec |-> NoTimer,
   guard |-> NoTimer, backoff |-> NoTimer]

\* The locals of the handler before emitTokens() is called.
\*   wait: what emitTokens is suspended in ("start" before its call, "delay",
\*   "tool", "provider", "none"); status: "running", "returned" (an early
\*   return), "finished" (past the last line), "failed" (the catch handler ran)
\*   the interval timer hb is rearmed by the runtime after each callback;
\*   repaired: the local of that name; repairs: the calls of attemptRepair;
\*   execCalls: the calls of execTool
NewSession(mode, key) ==
  [mode |-> mode, key |-> key, pc |-> 1, wait |-> "start", status |-> "running",
   isClosed |-> FALSE, hadResult |-> FALSE, degraded |-> FALSE, metrics |-> "none",
   pending |-> NoPending, round |-> 0, direct |-> FALSE, pings |-> 0,
   validator |-> NewValidator, repaired |-> JUndefined, repairs |-> 0, execCalls |-> 0,
   cur |-> [id |-> <<>>, name |-> <<>>],
   silence |-> 0, timers |-> [NoTimers EXCEPT !.hb = HEARTBEAT_MS]]

NoProvider == [active |-> FALSE, opened |-> FALSE, script |-> <<>>, calls |-> 0]

DoneEvent == [NoEvent EXCEPT !.type = "done"]
PingEvent == [NoEvent EXCEPT !.type = "ping"]
ErrorEvent(code) == [NoEvent EXCEPT !.type = "error", !.code = code]

\* ArtifactsWriter: the files frames.ndjson, prompt.json and metrics.json
\* of the directory it is constructed with; every handler constructs it
\* with 'artifacts'.  A line of frames.ndjson is kept as its event and data
\* (its field t is the clock's reading).
NoFile == [written |-> FALSE]
NoDisk == [frames |-> <<>>, prompt |-> NoFile, metrics |-> NoFile]

appendFrame(art, event, data) ==
  [art EXCEPT !.frames = Append(@, [event |-> event, data |-> data])]

writePrompt(art, data) == [art EXCEPT !.prompt = data]

writeMetrics(art, data) == [art EXCEPT !.metrics = data]

\* { request: body, model: CONFIG.MODEL_ID, ... }
Prompt(mode) == [written |-> TRUE, request |-> mode, model |-> MODEL_ID]

\* The notes of a kind that passed, or failed, validation.
NotesOf(notes, kind, ok) ==
  Cardinality({i \in 1..Len(notes) : notes[i].kind = kind /\ notes[i].ok = ok})

\* What writeMetrics is called with (totalMs and toolLatencyMs are readings
\* of the clock).
Metrics(st) ==
  [written |-> TRUE, model |-> MODEL_ID, degraded |-> st.ses.degraded,
   validation |-> [okJson |-> NotesOf(st.ses.validator.notes, "json", TRUE),
                   badJson |-> NotesOf(st.ses.validator.notes, "json", FALSE),
                   okResult |-> NotesOf(st.ses.validator.notes, "result", TRUE),
                   badResult |-> NotesOf(st.ses.validator.notes, "result", FALSE)]]

\* What every case of emit's switch but text.delta does: queue.send,
\* artifacts.appendFrame and resetFrameTimer.
EmitSend(st, e) ==
  [st EXCEPT !.eq = SendCall(@, Item(e.type, e), "none"),
             !.trace = AddEvent(@, e),
             !.art = appendFrame(@, e.type, e),
             !.ses.timers.frame = FRAME_TIMEOUT_MS,
             !.ses.silence = 0]

\* What the cases result.begin and tool.call do besides.
EmitNote(st, e) ==
  IF e.type = "result.begin" THEN [st EXCEPT !.ses.hadResult = TRUE]
  ELSE IF e.type = "tool.call"
  THEN [st EXCEPT !.ses.pending = [set |-> TRUE, id |-> e.id, name |-> e.name, args |-> e.args]]
  ELSE st

\* The call of the validator in the cases json.* and result.*.
Validate(st, e) ==
  CASE e.type \in {"json.begin", "result.begin"} ->
         [st EXCEPT !.ses.validator =
            onBegin(@, IF e.type = "json.begin" THEN "json" ELSE "result", e.id, e.name)]
    [] e.type \in {"json.delta", "result.delta"} ->
         [st EXCEPT !.ses.validator =
            onDelta(@, IF e.type = "json.delta" THEN "json" ELSE "result", e.id, e.chunk)]
    [] e.type \in {"json.end", "result.end"} ->
         [st EXCEPT !.ses.validator =
            onEnd(@, IF e.type = "json.end" THEN "json" ELSE "result", e.id)]
    [] OTHER -> st

\* emit(e): the switch of the handler
Emit(st, e) ==
  IF e.type = "text.delta" THEN st ELSE EmitNote(EmitSend(Validate(st, e), e), e)

RECURSIVE EmitAll(_, _)
EmitAll(st, es) == IF es = <<>> THEN st ELSE EmitAll(Emit(st, Head(es)), Tail(es))

\* The parser's state and the events it has passed to emit, r, taken over.
Ingested(st, r) == EmitAll([st EXCEPT !.buffer = r.buffer, !.frame = r.frame], r.out)

\* parser.ingest(text) with emit as the parser's callback
IngestText(st, text) == Ingested(st, ingest(st.buffer, st.frame, text))

RECURSIVE IngestAll(_, _)
IngestAll(st, texts) ==
  IF texts = <<>> THEN st ELSE IngestAll(IngestText(st, Head(texts)), Tail(texts))

\* queue.send of an event that is no frame event (done, error, ping)
SendPlain(st, e, tag) ==
  [st EXCEPT !.eq = SendCall(@, Item(e.type, e), tag), !.trace = Append(@, e)]

\* The callback of the frame timer.
FrameTimeout(st) ==
  LET s1 == [st EXCEPT !.ses.timers.frame = NoTimer]
  IN IF s1.ses.isClosed THEN s1
     ELSE SendPlain(s1, ErrorEvent("frame_timeout"), "thenClose")

\* The callback of the heartbeat interval.
Heartbeat(st) == SendPlain([st EXCEPT !.ses.pings = @ + 1], PingEvent, "none")

\* request.raw.on('close', ...)
RequestClosed(st) == [st EXCEPT !.ses.isClosed = TRUE, !.ses.timers.hb = NoTimer]

\* One line or one suspension point of emitTokens.
Ins(op) == [op |-> op, text |-> <<>>, ms |-> 0, name |-> <<>>, args |-> JNull, id |-> <<>>]
I_INGEST(text) == [Ins("ingest") EXCEPT !.text = text]
I_DELAY(ms) == [Ins("delay") EXCEPT !.ms = ms]
I_CHECK == Ins("chk")
I_RESET == Ins("rst")
I_TOOL(id, name, args) == [Ins("tool") EXCEPT !.id = id, !.name = name, !.args = args]
I_DIRECT(id, name, args) == [Ins("toolDirect") EXCEPT !.id = id, !.name = name, !.args = args]
I_RESULT == Ins("emitResult")
I_ANSWER(kind) == [Ins("answer") EXCEPT !.name = kind]
I_PROVIDER == Ins("provider")
I_ROUND == Ins("round")
I_AFTER_ROUND == Ins("afterRound")
I_LOOP == Ins("loop")
I_REPAIR == Ins("repair")
I_REPAIRED == Ins("repaired")

A_SEARCH == <<"{",DQ,"t","y","p","e",DQ,":",DQ,"s","e","a","r","c","h",DQ,",",DQ,"q","u","e","r","y",DQ,":",DQ,"p","i","z","z","a",DQ,",",DQ,"r","a","d","i","u","s","_","k","m",DQ,":","3","}">>
A_5000 == JObj(<<KV(K_MS, JNum(5000))>>)

Reply(answer) == JObj(<<KV(K_ANSWER, JStr(answer)), KV(K_CITATIONS, JArr(<<>>))>>)

\* parser.ingest of a whole Tool frame in three calls
ToolFrame(id, name, args) ==
  <<I_INGEST(BeginToolText(id, name)), I_INGEST(JSONStringify(args)), I_INGEST(EndToolText(id))>>

Prelude ==
  <<I_INGEST(BeginObjectText(ID_O1, S_ACTION)), I_DELAY(10), I_INGEST(A_SEARCH), I_DELAY(10),
    I_INGEST(EndObjectText(ID_O1)), I_CHECK, I_RESET>>

ProviderModes == {"provider_demo", "provider_tools_demo", "provider_fallback_test"}

\* The body of emitTokens for a mode, up to the fallback.
Script(mode) ==
  CASE mode = "retry_test" ->
         Prelude \o <<I_DELAY(10)>> \o ToolFrame(ID_T1, T_TEST_FAILONCE, A_KEY_K1)
         \o <<I_TOOL(ID_T1, T_TEST_FAILONCE, A_KEY_K1), I_RESULT, I_DELAY(10),
              I_INGEST(BeginResultText(ID_R1, S_ASSISTANT_REPLY)), I_ANSWER("retry"),
              I_INGEST(EndResultText(ID_R1))>>
    [] mode = "timeout_test" ->
         Prelude \o <<I_DELAY(10)>> \o ToolFrame(ID_T1, T_TEST_SLEEP, A_SLOW)
         \o <<I_DIRECT(ID_T1, T_TEST_SLEEP, A_SLOW), I_RESULT, I_DELAY(10),
              I_INGEST(BeginResultText(ID_R1, S_ASSISTANT_REPLY)), I_ANSWER("timeout"),
              I_INGEST(EndResultText(ID_R1))>>
    [] mode = "backpressure_test" ->
         Prelude \o <<I_DELAY(10), I_INGEST(BeginResultText(ID_R1, S_ASSISTANT_REPLY)),
                      I_INGEST(<<"{",DQ,"a","n","s","w","e","r",DQ,":",DQ>>)>>
         \o [i \in 1..(2 * BackpressureChunks) |->
               IF i % 2 = 1 THEN I_INGEST(<<"x">>) ELSE I_DELAY(1)]
         \o <<I_INGEST(<<DQ,",",DQ,"c","i","t","a","t","i","o","n","s",DQ,":","[","]","}">>), I_INGEST(EndResultText(ID_R1))>>
    [] mode = "interrupt_test" ->
         Prelude \o <<I_DELAY(10)>> \o ToolFrame(ID_T1, T_TEST_SLEEP, A_5000)
         \o <<I_CHECK, I_TOOL(ID_T1, T_TEST_SLEEP, A_5000), I_RESULT, I_CHECK, I_DELAY(10),
              I_INGEST(BeginResultText(ID_R1, S_ASSISTANT_REPLY)), I_ANSWER("interrupt"),
              I_INGEST(EndResultText(ID_R1))>>
    [] mode = "repair_test" ->
         Prelude \o <<I_DELAY(10), I_INGEST(BeginResultText(ID_R1, S_ASSISTANT_REPLY)),
                      I_INGEST(JSONStringify(JObj(<<KV(K_CITATIONS, JArr(<<>>))>>))),
                      I_INGEST(EndResultText(ID_R1)),
                      I_REPAIR, I_DELAY(10),
                      I_INGEST(BeginResultText(ID_R2, S_ASSISTANT_REPLY)), I_REPAIRED,
                      I_INGEST(EndResultText(ID_R2))>>
    [] mode = "silence_test" -> Prelude \o <<I_DELAY(FRAME_TIMEOUT_MS + 200)>>
    [] mode = "provider_demo" -> <<I_PROVIDER>>
    [] mode = "provider_tools_demo" -> <<I_ROUND, I_AFTER_ROUND, I_RESULT, I_LOOP>>
    [] mode = "provider_fallback_test" -> <<I_DELAY(10)>>
    [] OTHER -> <<>>

\* The text of the reply the script builds from the tool's result.
AnswerText(kind, result) ==
  CASE kind = "retry" ->
         JSONStringify(Reply(<<"R","e","t","r","y"," ","a","t","t","e","m","p","t","s"," ">> \o NatDigits(Coalesce(JGet(result, K_ATTEMPT), JNum(0)).n)))
    [] kind = "timeout" ->
         JSONStringify(Reply(<<"T","i","m","e","o","u","t"," ","t","e","s","t",":"," ">> \o
           (IF JGet(result, K_ERROR).t = "str" THEN <<"t","i","m","e","d"," ","o","u","t">> ELSE <<"o","k">>)))
    [] OTHER -> JSONStringify(Reply(<<"I","n","t","e","r","r","u","p","t"," ","t","e","s","t"," ","c","o","m","p","l","e","t","e","d">>))

\* The timers execTool and withTimeout hold for the call as it stands.
ToolTimers(t, c) ==
  IF c.pc = "exec" THEN [t EXCEPT !.exec = c.ms, !.guard = TOOL_TIMEOUT_MS]
  ELSE IF c.pc = "backoff" THEN [t EXCEPT !.backoff = 100 * (c.attempt + 1)]
  ELSE t

\* AfterTool without the await: emitTokens goes on at once.
AfterTool_NoAwait(st, w) ==
  [st EXCEPT !.cache = w.cache, !.seen = w.seen, !.call = w.call,
             !.ses.timers = ToolTimers(@, w.call),
             !.ses.wait = "none"]

\* emitTokens goes on once its execTool call has come back.
AfterTool(st, w) ==
  [st EXCEPT !.cache = w.cache, !.seen = w.seen, !.call = w.call,
             !.ses.timers = ToolTimers(@, w.call),
             !.ses.wait = IF w.call.pc \in {"returned", "threw"} THEN "none" ELSE "tool"]

\* await streamFromProvider(...)
StartProvider(st) ==
  [st EXCEPT !.ses.wait = "provider",
             !.prov = [active |-> TRUE, opened |-> FALSE, script |-> <<>>, calls |-> @.calls + 1]]

\* validator.notes.find(n => n.kind === 'result' && n.schema === 'AssistantReply' && !n.ok)
BadNotes(notes) ==
  {i \in 1..Len(notes) :
     notes[i].kind = "result" /\ notes[i].schema = S_ASSISTANT_REPLY /\ ~notes[i].ok}

\* Repair: the replacement frame ingested at once, and a second repair
\* when the replacement has failed validation too.
Repair_UntilValid(st) ==
  IF BadNotes(st.ses.validator.notes) = {}
  THEN [st EXCEPT !.ses.pc = Len(Script(st.ses.mode)) + 1]
  ELSE [IngestAll(st, <<BeginResultText(ID_R2, S_ASSISTANT_REPLY),
                        JSONStringify(attemptRepair(
                          st.ses.validator.notes[MinOf(BadNotes(st.ses.validator.notes))].errors)),
                        EndResultText(ID_R2)>>)
          EXCEPT !.ses.degraded = TRUE,
                 !.ses.repaired = attemptRepair(
                   st.ses.validator.notes[MinOf(BadNotes(st.ses.validator.notes))].errors),
                 !.ses.repairs = @ + 2]

\* const bad = ...; if (bad) { degraded = true; const repaired = attemptRepair(bad.errors);
Repair(st) ==
  IF BadNotes(st.ses.validator.notes) = {}
  THEN [st EXCEPT !.ses.pc = Len(Script(st.ses.mode)) + 1]
  ELSE [st EXCEPT !.ses.degraded = TRUE,
                  !.ses.repaired = attemptRepair(
                    st.ses.validator.notes[MinOf(BadNotes(st.ses.validator.notes))].errors),
                  !.ses.repairs = @ + 1]

\* The text a line of the script hands to parser.ingest.
TextOf(st, ins) ==
  CASE ins.op = "ingest" -> ins.text
    [] ins.op = "repaired" -> JSONStringify(st.ses.repaired)
    [] OTHER -> AnswerText(ins.name, ResultOf(st.call))

\* A round loop that goes on to its next pass when no tool call is pending.
AfterRound_NoBreak(st, next) ==
  IF st.ses.isClosed THEN [st EXCEPT !.ses.status = "returned"]
  ELSE IF ~st.ses.pending.set
  THEN [next EXCEPT !.ses.pc = Len(Script(st.ses.mode))]
  ELSE AfterTool([next EXCEPT !.ses.cur = [id |-> st.ses.pending.id,
                                            name |-> st.ses.pending.name],
                              !.ses.direct = FALSE,
                              !.ses.execCalls = @ + 1,
                              !.ses.pending = NoPending],
                 execTool(st.cache, st.seen, st.ses.key, st.ses.pending.name,
                          st.ses.pending.args))

\* if (isClosed) return; if (!providerPendingTool) break; ... await execTool(...)
AfterRound(st, next) ==
  IF st.ses.isClosed THEN [st EXCEPT !.ses.status = "returned"]
  ELSE IF ~st.ses.pending.set
  THEN [st EXCEPT !.ses.pc = Len(Script(st.ses.mode)) + 1]
  ELSE AfterTool([next EXCEPT !.ses.cur = [id |-> st.ses.pending.id,
                                            name |-> st.ses.pending.name],
                              !.ses.direct = FALSE,
                              !.ses.execCalls = @ + 1,
                              !.ses.pending = NoPending],
                 execTool(st.cache, st.seen, st.ses.key, st.ses.pending.name,
                          st.ses.pending.args))

\* One line of the script.
Exec(st, ins) ==
  LET next == [st EXCEPT !.ses.pc = @ + 1]
  IN CASE ins.op \in {"ingest", "answer", "repaired"} -> IngestText(next, TextOf(st, ins))
       [] ins.op = "repair" -> Repair(next)
       [] ins.op = "delay" -> [next EXCEPT !.ses.wait = "delay", !.ses.timers.delay = ins.ms]
       [] ins.op = "chk" ->
            IF st.ses.isClosed THEN [st EXCEPT !.ses.status = "returned"] ELSE next
       [] ins.op = "rst" -> [next EXCEPT !.ses.timers.frame = FRAME_TIMEOUT_MS]
       [] ins.op = "tool" ->
            AfterTool([next EXCEPT !.ses.cur = [id |-> ins.id, name |-> ins.name],
                                   !.ses.direct = FALSE, !.ses.execCalls = @ + 1],
                      execTool(st.cache, st.seen, st.ses.key, ins.name, ins.args))
       [] ins.op = "toolDirect" ->
            LET o == Execute(ins.name, ins.args, st.seen)
            IN AfterTool([next EXCEPT !.ses.cur = [id |-> ins.id, name |-> ins.name],
                                      !.ses.direct = TRUE],
                         ToolWorld(st.cache, o.seen,
                                   [IdleCall EXCEPT !.name = ins.name, !.args = ins.args,
                                                    !.pc = "exec", !.ms = o.ms, !.val = o.val,
                                                    !.invoked = 1]))
       [] ins.op = "emitResult" ->
            Emit(next, ToolResult(st.ses.cur.id, st.ses.cur.name, ResultOf(st.call)))
       [] ins.op = "provider" -> StartProvider(next)
       [] ins.op = "round" ->
            IF st.ses.round < MaxRounds
            THEN StartProvider([next EXCEPT !.ses.pending = NoPending])
            ELSE [st EXCEPT !.ses.pc = Len(Script(st.ses.mode)) + 1]
       [] ins.op = "afterRound" -> AfterRound(st, next)
       [] OTHER -> [st EXCEPT !.ses.pc = 1, !.ses.round = @ + 1]

FallbackReply ==
  JObj(<<KV(K_ANSWER, JStr(<<>>)), KV(K_CITATIONS, JArr(<<>>)),
         KV(K_DIAGNOSTICS, JObj(<<KV(K_ERROR, JStr(<<"p","r","o","v","i","d","e","r","_","n","o","_","r","e","s","u","l","t">>)), KV(K_MODEL, JStr(MODEL_ID))>>))>>)

\* "If provider modes didn't produce any result, emit degraded fallback"
Fallback(st) ==
  IF ~st.ses.hadResult /\ st.ses.mode \in ProviderModes
  THEN IngestAll([st EXCEPT !.ses.degraded = TRUE],
                 <<BeginResultText(ID_R_FALLBACK, S_ASSISTANT_REPLY),
                   JSONStringify(FallbackReply),
                   EndResultText(ID_R_FALLBACK)>>)
  ELSE st

\* artifacts.appendFrame('done', {}), writeMetrics and await queue.close()
Closing(st) ==
  [st EXCEPT !.ses.metrics = IF st.ses.degraded THEN "degraded" ELSE "clean",
             !.art = writeMetrics(appendFrame(@, "done", NoEvent), Metrics(st)),
             !.eq = CloseCall(@),
             !.ses.status = "finished"]

\* Finish without the test of isClosed.
Finish_AlwaysDone(st) == Closing(SendPlain(st, DoneEvent, "none"))

\* From "// Done" to the end of emitTokens.
Finish(st) == Closing(IF ~st.ses.isClosed THEN SendPlain(st, DoneEvent, "none") ELSE st)

\* emitTokens().catch(...)
CatchHandler(st) ==
  [SendPlain(st, ErrorEvent("internal_error"), "none")
     EXCEPT !.eq = CloseCall(@), !.ses.status = "failed", !.ses.wait = "none"]

\* "If model emitted a tool.call, abort to handle it"
StopOnToolCall(st) ==
  IF st.ses.mode = "provider_tools_demo" /\ st.ses.pending.set
  THEN [st EXCEPT !.prov.active = FALSE, !.prov.script = <<>>, !.ses.wait = "none"]
  ELSE st

\* The callback is done with a delta: the stream goes on, or the callback
\* has returned false and streamFromProvider returns.
AfterDelta(st, stop) ==
  IF stop THEN [st EXCEPT !.prov.active = FALSE, !.prov.script = <<>>, !.ses.wait = "none"]
  ELSE st

\* The callback handed to streamFromProvider, called with the next delta.
OnDelta(st, delta) ==
  IF st.ses.isClosed THEN AfterDelta(st, TRUE)
  ELSE IF delta = <<>> THEN AfterDelta(st, FALSE)
  ELSE StopOnToolCall(IngestText(st, delta))

\* emitTokens runs on from where it stands to its next suspension.
RECURSIVE Run(_)
Run(st) ==
  IF st.ses.status # "running" \/ st.ses.wait # "none" THEN st
  ELSE IF st.ses.pc > Len(Script(st.ses.mode)) THEN Finish(Fallback(st))
  ELSE Run(Exec(st, Script(st.ses.mode)[st.ses.pc]))

\* streamFromProvider throws: provider_tools_demo swallows it, elsewhere it
\* reaches the catch handler of emitTokens.
Thrown(st) ==
  IF st.ses.mode = "provider_tools_demo" THEN Run([st EXCEPT !.ses.wait = "none"])
  ELSE CatchHandler(st)

\* The timers after d milliseconds.
Later(x, d) == IF x = NoTimer THEN NoTimer ELSE x - d

TimersAfter(t, d) ==
  [frame |-> Later(t.frame, d), delay |-> Later(t.delay, d), hb |-> Later(t.hb, d),
   exec |-> Later(t.exec, d), guard |-> Later(t.guard, d), backoff |-> Later(t.backoff, d)]

Pending(t) ==
  {t.frame, t.delay, t.hb, t.exec, t.guard, t.backoff} \ {NoTimer}

(***************************************************************************)
(* State.                                                                  *)
(*   buffer, frame   the fields of one FrameStream                         *)
(*   input, pos      the text fed to it and how much of it has been fed    *)
(*   trace           the events emitted so far, consecutive deltas of one  *)
(*                   frame joined into one                                 *)
(*   eq              one EventQueue and its sink                           *)
(*   qenv            how many send() and close() calls have been made, and *)
(*                   the items of the send() calls the queue took          *)
(*   tool            the process-wide idemCache and seen map, the execTool *)
(*                   call of each caller, and the invocations finished so  *)
(*                   far with their tool.result payloads                   *)
(*   ses             the locals and timers of one session handler          *)
(*   prov            the provider stream that handler reads                *)
(*   disk            the files of the directory 'artifacts'                *)
(*   handlers        the handlers of concurrent requests, each with its    *)
(*                   own parser, validator, queue and locals               *)
(***************************************************************************)
VARIABLES buffer, frame, input, pos, trace, eq, qenv, tool, ses, prov, disk, handlers

parserVars == <<buffer, frame>>
feedVars   == <<input, pos, trace>>
queueVars  == <<eq, qenv>>
sessionVars == <<ses, prov, disk, handlers>>
vars       == <<buffer, frame, input, pos, trace, eq, qenv, tool, ses, prov, disk, handlers>>

ParserIdle ==
  /\ input = <<>>
  /\ pos = 0
  /\ buffer = <<>>
  /\ frame = NoFrame
  /\ trace = <<>>

QueueIdle ==
  /\ eq = NewQueue
  /\ qenv = [sends |-> 0, closes |-> 0, sent |-> <<>>]

NumCallers == 2
Callers == 1..NumCallers

ToolIdle ==
  tool = [cache |-> <<>>, seen |-> <<>>, call |-> [c \in Callers |-> IdleCall],
          done |-> {}, started |-> 0]

NumHandlers == 2
Handlers == 1..NumHandlers

\* What belongs to one handler; cache, seen and art stand for the process's
\* idemCache, the executors' counters and the directory 'artifacts' while
\* the handler runs.
NoHandler ==
  [ses |-> [NewSession("", JUndefined) EXCEPT !.status = "none", !.timers = NoTimers],
   buffer |-> <<>>, frame |-> NoFrame, trace |-> <<>>, eq |-> NewQueue,
   cache |-> <<>>, seen |-> <<>>, call |-> IdleCall, prov |-> NoProvider, art |-> NoDisk]

NoHandlers == handlers = [h \in Handlers |-> NoHandler]

NoSession ==
  /\ ses = NoHandler.ses
  /\ prov = NoProvider
  /\ disk = NoDisk
  /\ NoHandlers

(***************************************************************************)
(* SpecQueue: one EventQueue under callers that send and close at any      *)
(* time, over a sink that takes its buffered writes at any time.           *)
(***************************************************************************)
MaxSends == 3
MaxCloses == 2
\* how often the client stops reading
MaxStalls == 1

QItems ==
  {Item("json.delta", [NoEvent EXCEPT !.type = "json.delta", !.id = <<"a">>]),
   Item("ping", [NoEvent EXCEPT !.type = "ping"]),
   Item("done", NoEvent)}

\* The items of the send() calls that found the queue open, in call order.
SentAfter(item) == IF eq.closed THEN qenv.sent ELSE Append(qenv.sent, item)

ErrorItem(code) == Item("error", [NoEvent EXCEPT !.type = "error", !.code = code])

InitQueue == ParserIdle /\ QueueIdle /\ ToolIdle /\ NoSession

\* queue.send(event, data), the caller not waiting for it
QSend ==
  /\ qenv.sends < MaxSends
  /\ \E item \in QItems :
       /\ eq' = SendCall(eq, item, "none")
       /\ qenv' = [qenv EXCEPT !.sends = @ + 1, !.sent = SentAfter(item)]
  /\ UNCHANGED <<parserVars, feedVars, tool, sessionVars>>

\* await queue.send('error', ...); await queue.close()
QSendThenClose ==
  /\ qenv.sends < MaxSends
  /\ qenv.closes < MaxCloses
  /\ eq' = SendCall(eq, ErrorItem("frame_timeout"), "thenClose")
  /\ qenv' = [qenv EXCEPT !.sends = @ + 1, !.closes = @ + 1,
                          !.sent = SentAfter(ErrorItem("frame_timeout"))]
  /\ UNCHANGED <<parserVars, feedVars, tool, sessionVars>>

\* queue.close()
QClose ==
  /\ qenv.closes < MaxCloses
  /\ eq' = CloseCall(eq)
  /\ qenv' = [qenv EXCEPT !.closes = @ + 1]
  /\ UNCHANGED <<parserVars, feedVars, tool, sessionVars>>

\* the one-millisecond wait of a send() is over
QTick ==
  /\ eq.tickWaiters # <<>>
  /\ eq' = TickCall(eq)
  /\ UNCHANGED <<parserVars, feedVars, qenv, tool, sessionVars>>

\* the client stops reading
QStall ==
  /\ ~eq.stalled
  /\ eq.stalls < MaxStalls
  /\ eq' = StallCall(eq)
  /\ UNCHANGED <<parserVars, feedVars, qenv, tool, sessionVars>>

\* the client reads again: the socket drains and the response emits 'drain'
QDrain ==
  /\ eq.stalled
  /\ eq' = DrainCall(eq)
  /\ UNCHANGED <<parserVars, feedVars, qenv, tool, sessionVars>>

\* the client reads again after the response was ended, on a runtime that
\* emits no 'drain' for an ended response
QSocketFlush ==
  /\ eq.stalled
  /\ eq.ended
  /\ eq.needDrain
  /\ eq' = SocketFlush(eq)
  /\ UNCHANGED <<parserVars, feedVars, qenv, tool, sessionVars>>

NextQueue ==
  QSend \/ QSendThenClose \/ QClose \/ QTick \/ QStall \/ QDrain \/ QSocketFlush

SpecQueue == InitQueue /\ [][NextQueue]_vars

(***************************************************************************)
(* SpecTool: callers in concurrent sessions invoke tools through execTool  *)
(* against the one idemCache of the process.                               *)
(***************************************************************************)
MaxToolCalls == 3

Invocation(key, name, args) == [key |-> key, name |-> name, args |-> args]

\* The invocations the callers choose from: with and without an
\* Idempotency-Key header, a failing-once tool, a quick and a slow sleep,
\* unparseable args, a name the registry does not have, a header and a
\* name that hold colons.
ToolInvocations ==
  {Invocation(HDR_K, T_TEST_FAILONCE, A_KEY_K1),
   Invocation(JUndefined, T_TEST_FAILONCE, A_KEY_K1),
   Invocation(HDR_K, T_TEST_SLEEP, A_SLOW),
   Invocation(JUndefined, T_TEST_SLEEP, JNull),
   Invocation(HDR_K, T_TEST_FAILONCE, JNull),
   Invocation(HDR_K, <<"x">>, A_KEY_K1),
   Invocation(JStr(<<"K",":",":","x">>), T_TEST_SLEEP, JNull),
   Invocation(HDR_K, <<"x",":",":">> \o T_TEST_SLEEP, JNull)}

InitTool == ParserIdle /\ QueueIdle /\ ToolIdle /\ NoSession

\* The world after a step of caller c: a call that has come back is
\* entered in done with its tool.result payload and the caller is idle
\* again.
Settle(c, w) ==
  LET back == w.call.pc \in {"returned", "threw"}
      rec == [key |-> w.call.key, name |-> w.call.name, args |-> w.call.args,
              result |-> ResultOf(w.call), invoked |-> w.call.invoked]
  IN [tool EXCEPT !.cache = w.cache, !.seen = w.seen,
                  !.call[c] = IF back THEN [IdleCall EXCEPT !.late = w.call.late] ELSE w.call,
                  !.done = IF back THEN @ \cup {rec} ELSE @]

\* a session calls execTool
TCall(c) ==
  /\ tool.call[c].pc = "idle"
  /\ tool.started < MaxToolCalls
  /\ \E i \in ToolInvocations :
       tool' = [Settle(c, execTool(tool.cache, tool.seen, i.key, i.name, i.args))
                  EXCEPT !.started = @ + 1, !.call[c].late = tool.call[c].late]
  /\ UNCHANGED <<parserVars, feedVars, queueVars, sessionVars>>

\* the executor's timer runs out before the guard's
TExecutorDone(c) ==
  /\ tool.call[c].pc = "exec"
  /\ tool.call[c].ms <= TOOL_TIMEOUT_MS
  /\ tool' = Settle(c, ExecutorDone(tool.cache, tool.seen, tool.call[c]))
  /\ UNCHANGED <<parserVars, feedVars, queueVars, sessionVars>>

\* the guard's timer runs out before the executor's
TGuardFires(c) ==
  /\ tool.call[c].pc = "exec"
  /\ tool.call[c].ms > TOOL_TIMEOUT_MS
  /\ tool' = Settle(c, GuardFired(tool.cache, tool.seen, tool.call[c]))
  /\ UNCHANGED <<parserVars, feedVars, queueVars, sessionVars>>

\* an executor promise whose guard has fired resolves
TLateDone(c) ==
  /\ tool.call[c].late > 0
  /\ tool' = [tool EXCEPT !.call[c].late = @ - 1]
  /\ UNCHANGED <<parserVars, feedVars, queueVars, sessionVars>>

\* the delay before the next attempt is over
TRetry(c) ==
  /\ tool.call[c].pc = "backoff"
  /\ tool' = Settle(c, Retry(tool.cache, tool.seen, tool.call[c]))
  /\ UNCHANGED <<parserVars, feedVars, queueVars, sessionVars>>

NextTool ==
  \E c \in Callers :
    TCall(c) \/ TExecutorDone(c) \/ TGuardFires(c) \/ TLateDone(c) \/ TRetry(c)

SpecTool == InitTool /\ [][NextTool]_vars

(***************************************************************************)
(* SpecSession: one POST /v1/stream handler in every mode, its client,     *)
(* its sink, its timers and the provider.                                  *)
(***************************************************************************)
\* The heartbeats after which the run is cut off.
MaxPings == 2

Modes ==
  {"retry_test", "timeout_test", "backpressure_test", "interrupt_test", "silence_test",
   "repair_test",
   "provider_demo", "provider_tools_demo", "provider_fallback_test"}

ToolFrameText(id, name, args) ==
  BeginToolText(id, name) \o JSONStringify(args) \o EndToolText(id)

\* What a provider streams, as its deltas: a tool call; a reply in two
\* deltas; the first of these two only; a reply without its answer; a tool
\* call and a reply in one delta; a call of a tool that sleeps longer than
\* TOOL_TIMEOUT_MS; a call of a tool the registry does not
\* have; nothing.  A provider
\* delivers its deltas before any timer of the handler fires; when it has
\* delivered them it ends the stream at any time, or never.
PV_TOOL == <<ToolFrameText(ID_T1, T_TEST_FAILONCE, A_KEY_K1)>>
PV_RESULT ==
  <<BeginResultText(ID_R1, S_ASSISTANT_REPLY) \o <<"{",DQ,"a","n","s","w","e","r",DQ,":",DQ>>,
    <<"o","k",DQ,",",DQ,"c","i","t","a","t","i","o","n","s",DQ,":","[","]","}">> \o EndResultText(ID_R1)>>
PV_TOOL_AND_RESULT ==
  <<ToolFrameText(ID_T1, T_TEST_FAILONCE, A_KEY_K1)
    \o BeginResultText(ID_R1, S_ASSISTANT_REPLY) \o <<"{",DQ,"a","n","s","w","e","r",DQ,":",DQ>> \o <<"o","k",DQ,",",DQ,"c","i","t","a","t","i","o","n","s",DQ,":","[","]","}">> \o EndResultText(ID_R1)>>
PV_RESULT_CUT == <<PV_RESULT[1]>>
PV_RESULT_BAD ==
  <<BeginResultText(ID_R1, S_ASSISTANT_REPLY)
    \o JSONStringify(JObj(<<KV(K_CITATIONS, JArr(<<>>))>>)) \o EndResultText(ID_R1)>>
PV_TOOL_SLOW == <<ToolFrameText(ID_T1, T_TEST_SLEEP, A_SLOW)>>
PV_UNKNOWN_TOOL == <<ToolFrameText(ID_T1, <<"x">>, JObj(<<>>))>>
PV_SILENT == <<>>

ProviderScripts ==
  {PV_TOOL, PV_TOOL_SLOW, PV_RESULT, PV_RESULT_CUT, PV_RESULT_BAD, PV_TOOL_AND_RESULT,
   PV_UNKNOWN_TOOL, PV_SILENT}

\* The Idempotency-Key header of the session's request.
SessionKeys == {HDR_K}

InitSession ==
  /\ ParserIdle
  /\ QueueIdle
  /\ ToolIdle
  /\ \E mode \in Modes, key \in SessionKeys :
       /\ ses = NewSession(mode, key)
       /\ disk = writePrompt(NoDisk, Prompt(mode))
  /\ prov = NoProvider
  /\ NoHandlers

Bundle ==
  [ses |-> ses, buffer |-> buffer, frame |-> frame, trace |-> trace, eq |-> eq,
   cache |-> tool.cache, seen |-> tool.seen, call |-> tool.call[1], prov |-> prov,
   art |-> disk]

Commit(st) ==
  /\ ses' = st.ses
  /\ buffer' = st.buffer
  /\ frame' = st.frame
  /\ trace' = st.trace
  /\ eq' = st.eq
  /\ tool' = [tool EXCEPT !.cache = st.cache, !.seen = st.seen, !.call[1] = st.call]
  /\ prov' = st.prov
  /\ disk' = st.art
  /\ UNCHANGED <<input, pos, qenv, handlers>>

\* emitTokens() is called
SStart ==
  /\ ses.wait = "start"
  /\ Commit(Run([Bundle EXCEPT !.ses.wait = "none"]))

\* time passes until the next timer is due (the handler calls emitTokens
\* before it returns, so none passes before); once emitTokens is over the
\* timers left find the queue closed or the client gone and are not followed
SAdvance ==
  LET P == Pending(ses.timers)
  IN /\ ses.status = "running"
     /\ ses.wait # "start"
     /\ prov.active => prov.opened /\ prov.script = <<>>
     /\ P # {}
     /\ 0 \notin P
     /\ Commit([Bundle EXCEPT
          !.ses.timers = TimersAfter(@, MinOf(P)),
          !.ses.silence = IF @ + MinOf(P) > FRAME_TIMEOUT_MS THEN FRAME_TIMEOUT_MS + 1
                          ELSE @ + MinOf(P)])

\* await delay(ms) is over
SDelayOver ==
  /\ ses.timers.delay = 0
  /\ Commit(Run([Bundle EXCEPT !.ses.timers.delay = NoTimer, !.ses.wait = "none"]))

\* the frame timer fires
SFrameTimer ==
  /\ ses.timers.frame = 0
  /\ Commit(FrameTimeout(Bundle))

\* the heartbeat interval fires
SHeartbeat ==
  /\ ses.timers.hb = 0
  /\ Commit(Heartbeat([Bundle EXCEPT !.ses.timers.hb =
                         IF ses.pings + 1 >= MaxPings THEN NoTimer ELSE HEARTBEAT_MS]))

\* the executor's promise resolves before the guard fires
SExecutorDone ==
  /\ ses.timers.exec = 0
  /\ Commit(Run(AfterTool(
       [Bundle EXCEPT !.ses.timers.exec = NoTimer, !.ses.timers.guard = NoTimer],
       IF ses.direct
       THEN ToolWorld(tool.cache, tool.seen, [tool.call[1] EXCEPT !.pc = "returned"])
       ELSE ExecutorDone(tool.cache, tool.seen, tool.call[1]))))

\* the guard of withTimeout fires; the executor's promise settles later
\* with nobody waiting for it, which the session cannot observe
SGuard ==
  /\ ses.timers.guard = 0
  /\ Commit(Run(AfterTool(
       [Bundle EXCEPT !.ses.timers.guard = NoTimer, !.ses.timers.exec = NoTimer],
       IF ses.direct
       THEN ToolWorld(tool.cache, tool.seen,
                      [tool.call[1] EXCEPT !.pc = "threw", !.late = @ + 1,
                                           !.val = JStr(MSG_TOOL_TIMEOUT(tool.call[1].name))])
       ELSE GuardFired(tool.cache, tool.seen, tool.call[1]))))

\* the delay before the next attempt is over
SRetry ==
  /\ ses.timers.backoff = 0
  /\ Commit(Run(AfterTool([Bundle EXCEPT !.ses.timers.backoff = NoTimer],
                           Retry(tool.cache, tool.seen, tool.call[1]))))

\* the provider answers and starts to stream
SProviderOpen ==
  /\ prov.active
  /\ ~prov.opened
  /\ \E sc \in ProviderScripts :
       Commit([Bundle EXCEPT !.prov.opened = TRUE, !.prov.script = sc])

\* the provider call fails (a non-2xx response)
SProviderFail ==
  /\ prov.active
  /\ ~prov.opened
  /\ Commit(Thrown([Bundle EXCEPT !.prov.active = FALSE]))

\* the provider delivers its next delta to the callback
SProviderDelta ==
  /\ prov.active
  /\ prov.opened
  /\ prov.script # <<>>
  /\ Commit(Run(OnDelta([Bundle EXCEPT !.prov.script = Tail(@)], Head(prov.script))))

\* the provider's stream ends
SProviderEnd ==
  /\ prov.active
  /\ prov.opened
  /\ prov.script = <<>>
  /\ Commit(Run([Bundle EXCEPT !.prov.active = FALSE, !.ses.wait = "none"]))

\* the client goes away (a client that has stopped reading is followed as
\* one that stays); the 'close' event is handled after the handler, which
\* calls emitTokens, has returned
SDisconnect ==
  /\ ~ses.isClosed
  /\ ses.wait # "start"
  /\ eq.stalls = 0
  /\ Commit(RequestClosed(Bundle))

\* the client stops reading
SStall ==
  /\ ~ses.isClosed
  /\ ~eq.stalled
  /\ eq.stalls < MaxStalls
  /\ Commit([Bundle EXCEPT !.eq = StallCall(@)])

\* the client reads again: the socket drains and the response emits 'drain'
SDrain ==
  /\ ~ses.isClosed
  /\ eq.stalled
  /\ Commit([Bundle EXCEPT !.eq = DrainCall(@)])

\* the client reads again after the response was ended, on a runtime that
\* emits no 'drain' for an ended response
SSocketFlush ==
  /\ ~ses.isClosed
  /\ eq.stalled
  /\ eq.ended
  /\ eq.needDrain
  /\ Commit([Bundle EXCEPT !.eq = SocketFlush(@)])

\* the one-millisecond wait of a send() is over
STick ==
  /\ eq.tickWaiters # <<>>
  /\ Commit([Bundle EXCEPT !.eq = TickCall(@)])

NextSession ==
  \/ SStart \/ SAdvance \/ SDelayOver \/ SFrameTimer \/ SHeartbeat
  \/ SExecutorDone \/ SGuard \/ SRetry
  \/ SProviderOpen \/ SProviderFail \/ SProviderDelta \/ SProviderEnd
  \/ SDisconnect \/ SStall \/ SDrain \/ SSocketFlush \/ STick

SpecSession == InitSession /\ [][NextSession]_vars

(***************************************************************************)
(* SpecHandlers: the handlers of concurrent requests in one process.  Each *)
(* has the locals, parser, validator and queue of its own call of the      *)
(* route; idemCache, the executors' counters and the directory 'artifacts' *)
(* are the process's.  The callbacks of the handlers run one at a time.    *)
(***************************************************************************)
HandlerModes == {"retry_test", "repair_test"}

\* Handler h as its callbacks find it.
HandlerState(h) ==
  [handlers[h] EXCEPT !.cache = tool.cache, !.seen = tool.seen, !.art = disk]

\* A callback of handler h has run and left st.
HandlerCommit(h, st) ==
  /\ handlers' = [handlers EXCEPT
       ![h] = [st EXCEPT !.cache = <<>>, !.seen = <<>>, !.art = NoDisk]]
  /\ disk' = st.art
  /\ tool' = [tool EXCEPT !.cache = st.cache, !.seen = st.seen]
  /\ UNCHANGED <<parserVars, feedVars, queueVars, ses, prov>>

\* The callback of a timer of a handler.
TimerFires(st, name) ==
  CASE name = "delay" ->
         Run([st EXCEPT !.ses.timers.delay = NoTimer, !.ses.wait = "none"])
    [] name = "frame" -> FrameTimeout(st)
    [] name = "hb" ->
         Heartbeat([st EXCEPT !.ses.timers.hb =
                      IF st.ses.pings + 1 >= MaxPings THEN NoTimer ELSE HEARTBEAT_MS])
    [] name = "exec" ->
         Run(AfterTool(
           [st EXCEPT !.ses.timers.exec = NoTimer, !.ses.timers.guard = NoTimer],
           IF st.ses.direct
           THEN ToolWorld(st.cache, st.seen, [st.call EXCEPT !.pc = "returned"])
           ELSE ExecutorDone(st.cache, st.seen, st.call)))
    [] name = "guard" ->
         Run(AfterTool(
           [st EXCEPT !.ses.timers.guard = NoTimer, !.ses.timers.exec = NoTimer],
           IF st.ses.direct
           THEN ToolWorld(st.cache, st.seen,
                          [st.call EXCEPT !.pc = "threw", !.late = @ + 1,
                                          !.val = JStr(MSG_TOOL_TIMEOUT(st.call.name))])
           ELSE GuardFired(st.cache, st.seen, st.call)))
    [] OTHER ->
         Run(AfterTool([st EXCEPT !.ses.timers.backoff = NoTimer],
                       Retry(st.cache, st.seen, st.call)))

TimerNames == {"delay", "frame", "hb", "exec", "guard", "backoff"}

Running == {h \in Handlers : handlers[h].ses.status = "running"}

InitHandlers == ParserIdle /\ QueueIdle /\ ToolIdle /\ NoSession

\* POST /v1/stream: the handler, and emitTokens up to its first suspension
HRequest(h) ==
  /\ handlers[h].ses.status = "none"
  /\ \E mode \in HandlerModes, key \in SessionKeys :
       HandlerCommit(h, Run([HandlerState(h) EXCEPT
         !.ses = [NewSession(mode, key) EXCEPT !.wait = "none"],
         !.art = writePrompt(@, Prompt(mode))]))

\* time passes until the next timer of a running handler is due
HAdvance ==
  LET P == UNION {Pending(handlers[h].ses.timers) : h \in Running}
  IN /\ P # {}
     /\ 0 \notin P
     /\ handlers' = [h \in Handlers |->
          IF h \in Running
          THEN [handlers[h] EXCEPT
                  !.ses.timers = TimersAfter(@, MinOf(P)),
                  !.ses.silence = IF @ + MinOf(P) > FRAME_TIMEOUT_MS
                                  THEN FRAME_TIMEOUT_MS + 1 ELSE @ + MinOf(P)]
          ELSE handlers[h]]
     /\ UNCHANGED <<parserVars, feedVars, queueVars, tool, ses, prov, disk>>

\* a timer of a running handler fires
HTimer(h) ==
  /\ h \in Running
  /\ \E name \in TimerNames :
       /\ handlers[h].ses.timers[name] = 0
       /\ HandlerCommit(h, TimerFires(HandlerState(h), name))

NextHandlers == HAdvance \/ \E h \in Handlers : HRequest(h) \/ HTimer(h)

SpecHandlers == InitHandlers /\ [][NextHandlers]_vars

(***************************************************************************)
(* SpecParser: one FrameStream fed one text in chunks of every size.       *)
(***************************************************************************)
\* ⟦BEGIN_OBJECT id=a schema=S⟧{"k":"⟦END_OBJECT⟧"}⟦END_OBJECT id=a⟧
In_StringSentinel ==
  BeginObjectText(<<"a">>, <<"S">>)
  \o <<"{",DQ,"k",DQ,":",DQ>> \o SENT_END_OBJECT \o <<RBR,DQ,"}">>
  \o EndObjectText(<<"a">>)

\* hi⟦BEGIN_TOOL_CALL id=t name=n⟧{"m":1}⟦END_TOOL_CALL id=t⟧
In_Tool ==
  <<"h","i">> \o BeginToolText(<<"t">>, <<"n">>) \o <<"{",DQ,"m",DQ,":","1","}">>
  \o EndToolText(<<"t">>)

\* ⟦BEGIN_RESULT id=r schema=S⟧{}⟦END_RESULT id=r⟧⟦BEGIN_OBJECT id=a schema=S⟧
In_ResultThenObject ==
  BeginResultText(<<"r">>, <<"S">>) \o <<"{","}">> \o EndResultText(<<"r">>)
  \o BeginObjectText(<<"a">>, <<"S">>)

\* ⟦END_RESULT id=z⟧⟦BEGIN_RESULT id=r schema=S⟧⟦BEGIN_OBJECT id=b schema=S⟧⟦END_RESULT id=r⟧
In_StrayAndNested ==
  EndResultText(<<"z">>) \o BeginResultText(<<"r">>, <<"S">>)
  \o BeginObjectText(<<"b">>, <<"S">>) \o EndResultText(<<"r">>)

\* ⟦BEGIN_TOOL_CALL id=t name=n⟧{"m":⟦END_TOOL_CALL id=t⟧
In_BadToolJson ==
  BeginToolText(<<"t">>, <<"n">>) \o <<"{",DQ,"m",DQ,":">> \o EndToolText(<<"t">>)

\* ⟦BEGIN_OBJECT id=a schema=S⟧"⟦⟧"⟦END_OBJECT id=a⟧
In_Escaped ==
  BeginObjectText(<<"a">>, <<"S">>)
  \o <<DQ,BSL,"u","2","7","E","6",BSL,"u","2","7","E","7",DQ>>
  \o EndObjectText(<<"a">>)

\* ⟦BEGIN_OBJECT id=a⟧x⟦BEGIN_RESULT id=r schema=S⟧1⟦END_RESULT⟧
In_BadHeader ==
  SENT_BEGIN_OBJECT \o ID_EQ \o <<"a", RBR, "x">>
  \o BeginResultText(<<"r">>, <<"S">>) \o <<"1">> \o SENT_END_RESULT \o SENT_END

ParserInputs ==
  {In_StringSentinel, In_Tool, In_ResultThenObject, In_StrayAndNested, In_BadToolJson,
   In_Escaped, In_BadHeader}

InitParser ==
  /\ input \in ParserInputs
  /\ pos = 0
  /\ buffer = <<>>
  /\ frame = NoFrame
  /\ trace = <<>>
  /\ QueueIdle
  /\ ToolIdle
  /\ NoSession

\* parser.ingest(chunk) with the next n characters of the input.
Ingest ==
  \E n \in 1..(Len(input) - pos) :
    LET st == ingest(buffer, frame, SubSeq(input, pos + 1, pos + n))
    IN /\ buffer' = st.buffer
       /\ frame' = st.frame
       /\ pos' = pos + n
       /\ trace' = AddEvents(trace, st.out)
       /\ UNCHANGED <<input, queueVars, tool, sessionVars>>

NextParser == Ingest

SpecParser == InitParser /\ [][NextParser]_vars

\* What the parser emits for the whole input handed over in one ingest().
OneChunkTrace(text) == AddEvents(<<>>, ingest(<<>>, NoFrame, text).out)

(***************************************************************************)
(* Claims about FrameStream (SpecParser).                                  *)
(***************************************************************************)

\* C2: for any input text and any two ways of splitting it into ingest()
\* chunks FrameStream emits the same begin, end and tool.call events and the
\* same concatenated delta content per frame.  Stated against the split
\* into one chunk: once the whole input is fed, the frame events are those
\* of the input handed over in a single ingest().
C2_ChunkingIndependent ==
  pos = Len(input) => FrameEvents(trace) = FrameEvents(OneChunkTrace(input))

\* Whether the text, read as JSON from its start, stops inside a string
\* literal.
RECURSIVE EndsInString(_, _, _, _)
EndsInString(s, i, inString, escaped) ==
  IF i > Len(s) THEN inString
  ELSE IF inString THEN
    IF escaped THEN EndsInString(s, i + 1, TRUE, FALSE)
    ELSE IF s[i] = BSL THEN EndsInString(s, i + 1, TRUE, TRUE)
    ELSE EndsInString(s, i + 1, s[i] # DQ, FALSE)
  ELSE EndsInString(s, i + 1, s[i] = DQ, FALSE)

\* The body a frame had when the end event at index i of a trace closed it.
BodyAtEnd(tr, i) ==
  IF i > 1 /\ tr[i - 1].type \in {"json.delta", "result.delta"} /\ tr[i - 1].id = tr[i].id
  THEN tr[i - 1].chunk ELSE <<>>

\* C3: while a frame is open, the text of its END sentinel inside a JSON
\* string literal of the body never closes the frame, for every way the
\* body is split into chunks: the body of a closed frame never stops inside
\* a string literal.
C3_NoCloseInsideString ==
  \A i \in 1..Len(trace) :
    trace[i].type \in {"json.end", "result.end"}
      => ~EndsInString(BodyAtEnd(trace, i), 1, FALSE, FALSE)

\* The frame left open by the begin/end events of a trace from index i on,
\* ok FALSE once a begin comes while a frame is open or an end does not
\* carry the kind and id of the open frame.
RECURSIVE OpenFrame(_, _, _)
OpenFrame(tr, i, open) ==
  IF i > Len(tr) \/ ~open.ok THEN open
  ELSE LET e == tr[i] IN
    IF e.type \in {"json.begin", "result.begin"} THEN
      OpenFrame(tr, i + 1,
                [ok |-> open.kind = "none",
                 kind |-> IF e.type = "json.begin" THEN "object" ELSE "result",
                 id |-> e.id])
    ELSE IF e.type \in {"json.end", "result.end"} THEN
      OpenFrame(tr, i + 1,
                [ok |-> /\ open.kind = (IF e.type = "json.end" THEN "object" ELSE "result")
                        /\ open.id = e.id,
                 kind |-> "none", id |-> <<>>])
    ELSE OpenFrame(tr, i + 1, open)

\* C10: the begin/end events FrameStream emits alternate: no json.begin or
\* result.begin while a frame is open, each json.end/result.end carries the
\* kind and id of the single most recent unmatched begin, and the frame the
\* events leave open is the parser's active frame.
C10_BeginEndAlternate ==
  LET open == OpenFrame(trace, 1, [ok |-> TRUE, kind |-> "none", id |-> <<>>])
  IN /\ open.ok
     /\ frame.kind \in {"object", "result"} => open.kind = frame.kind /\ open.id = frame.id
     /\ frame.kind \in {"none", "tool"} => open.kind = "none"

\* A result frame whose body held a BEGIN_OBJECT sentinel has been closed.
C10_Witness ==
  \E i \in 2..Len(trace) :
    /\ trace[i].type = "result.end"
    /\ trace[i - 1].type = "result.delta"
    /\ IndexOf(trace[i - 1].chunk, SENT_BEGIN_OBJECT) # 0

\* The items that reached the sink with both their lines before it ended.
NoLateWrite(w) == \A i \in 1..Len(w.log) : ~w.log[i].late

\* C4: close() writes every event that was queued before the call to the
\* sink and only then ends the sink, whether the flusher is idle or
\* suspended waiting for drain at the time of the call; a send() made after
\* close() enqueues nothing.
C4_CloseWritesQueueThenEnds ==
  /\ [](eq.ended => eq.queue = <<>> /\ NoLateWrite(eq))
  /\ [][eq.closed => Len(eq'.queue) <= Len(eq.queue)]_vars

\* C5: any two tool invocations with equal (idempotency key, tool name,
\* args), in the same session or in different, possibly concurrent,
\* sessions, yield equal tool.result.result payloads.
C5_EqualInvocationsEqualResults ==
  \A x \in tool.done, y \in tool.done :
    (x.key = y.key /\ x.name = y.name /\ x.args = y.args) => x.result = y.result

\* A tool.result with the id of the tool.call at index i lies strictly
\* between the indices i and j of the trace.
Answered(tr, i, j) ==
  \E k \in (i + 1)..(j - 1) : tr[k].type = "tool.result" /\ tr[k].id = tr[i].id

\* The index of the first tool.call after index i, Len(tr) + 1 if none.
NextToolCall(tr, i) ==
  LET later == {j \in (i + 1)..Len(tr) : tr[j].type = "tool.call"}
  IN IF later = {} THEN Len(tr) + 1 ELSE MinOf(later)

\* C1: in every session, each tool.call passed to the emitter is answered
\* by a tool.result with the same id before any later tool.call,
\* result.begin or done of the session, and by no second one before the
\* next tool.call.
C1_ToolCallThenOneResult ==
  \A i \in 1..Len(trace) :
    trace[i].type = "tool.call" =>
      /\ \A j \in (i + 1)..Len(trace) :
           trace[j].type \in {"tool.call", "result.begin", "done"} => Answered(trace, i, j)
      /\ Cardinality({k \in (i + 1)..(NextToolCall(trace, i) - 1) :
                        trace[k].type = "tool.result" /\ trace[k].id = trace[i].id}) <= 1

\* The events send() has taken: those written to the sink, then those
\* still queued.
RECURSIVE Written(_)
Written(log) ==
  IF log = <<>> THEN <<>>
  ELSE IF Head(log).line = "data" THEN <<Head(log).item>> \o Written(Tail(log))
  ELSE Written(Tail(log))

Taken(w) == Written(w.log) \o w.queue

\* A caller of send() has still to go on to queue.close().
ClosePending(w) ==
  \/ \E i \in 1..Len(w.tickWaiters) : w.tickWaiters[i] = "thenClose"
  \/ \E i \in 1..Len(w.waiters) : w.waiters[i] = "thenClose"

\* C6: a session with a connected client whose last frame lifecycle event,
\* or whose start if it has produced none, lies more than FRAME_TIMEOUT_MS
\* back has had exactly one error event with code frame_timeout taken by
\* the queue, and the queue has been closed once that send() has returned.
C6_FrameTimeoutAfterSilence ==
  (ses.status = "running" /\ ~ses.isClosed /\ ses.silence > FRAME_TIMEOUT_MS) =>
    /\ Cardinality({i \in 1..Len(Taken(eq)) :
                      /\ Taken(eq)[i].event = "error"
                      /\ Taken(eq)[i].data.code = "frame_timeout"}) = 1
    /\ ~ClosePending(eq) => eq.closed

\* C7: when the sink of a session whose client is connected has been
\* ended, a done event or an error event was written to it before.
C7_NeverEndsSilently ==
  (eq.ended /\ ~ses.isClosed) =>
    \E i \in 1..Len(eq.log) :
      /\ eq.log[i].line = "data"
      /\ ~eq.log[i].late
      /\ eq.log[i].item.event \in {"done", "error"}

\* The indices of the events of one type in a trace.
Indices(tr, type) == {i \in 1..Len(tr) : tr[i].type = type}

\* C8: a session that has finished with metrics.degraded = false has sent
\* exactly one result.begin and exactly one result.end, the begin before the
\* end, and a done after the two.
C8_CleanSessionOneResultThenDone ==
  (ses.status = "finished" /\ ses.metrics = "clean") =>
    /\ Cardinality(Indices(trace, "result.begin")) = 1
    /\ Cardinality(Indices(trace, "result.end")) = 1
    /\ \A b \in Indices(trace, "result.begin"), e \in Indices(trace, "result.end") :
         /\ b < e
         /\ \E d \in Indices(trace, "done") : e < d

\* The type of the event that closes a frame opened by an event of type t.
EndOf(t) == IF t = "json.begin" THEN "json.end" ELSE "result.end"

\* C9: every json.begin and result.begin sent before a done has an end
\* event of its kind and id between itself and the done.
C9_OpenedFramesClosedBeforeDone ==
  \A d \in Indices(trace, "done") :
    \A b \in 1..(d - 1) :
      trace[b].type \in {"json.begin", "result.begin"} =>
        \E e \in (b + 1)..(d - 1) :
          trace[e].type = EndOf(trace[b].type) /\ trace[e].id = trace[b].id

\* No json.delta or result.delta among the events has an empty chunk.
DeltasNonEmpty(out) ==
  \A i \in 1..Len(out) : out[i].type \in {"json.delta", "result.delta"} => out[i].chunk # <<>>

\* The events the next ingest() emits when it is given n characters.
NextOut(n) == ingest(buffer, frame, SubSeq(input, pos + 1, pos + n)).out

\* C11: every json.delta and result.delta the parser emits has a non-empty
\* chunk: from every state the parser reaches, whatever the size of the next
\* chunk, the events of the next ingest() hold no empty delta.
C11_DeltasNonEmpty == \A n \in 1..(Len(input) - pos) : DeltasNonEmpty(NextOut(n))

\* An object or result frame whose body has all been emitted is about to
\* be closed by a chunk that starts with its end sentinel.
C11_Witness ==
  /\ frame.kind \in {"object", "result"}
  /\ frame.buf # <<>>
  /\ \E n \in 1..(Len(input) - pos) :
       /\ NextOut(n) # <<>>
       /\ NextOut(n)[1].type \in {"json.end", "result.end"}

\* Each event line in the log is directly followed by the data line of the
\* same item, and each data line directly follows such an event line.
LinesPaired(log) ==
  \A i \in 1..Len(log) :
    /\ log[i].line = "event" => i < Len(log) /\ log[i + 1].line = "data" /\ log[i + 1].item = log[i].item
    /\ log[i].line = "data" => i > 1 /\ log[i - 1].line = "event"

\* C12: the events written to the sink, followed by those still queued,
\* are the events of the send() calls in call order, and the event line and
\* the data line of one event are written one directly after the other,
\* whatever the interleaving of send() calls, pings, closes and drain waits.
C12_StrictFifo ==
  /\ Taken(eq) = qenv.sent
  /\ LinesPaired(eq.log)

\* After a wait for drain three events, a ping among them and not all the
\* same, have all been written.
C12_Witness ==
  /\ eq.stalls > 0
  /\ ~eq.stalled
  /\ eq.queue = <<>>
  /\ Len(qenv.sent) = 3
  /\ qenv.sent[1] # qenv.sent[2]
  /\ \E i \in 1..3 : qenv.sent[i].event = "ping"

\* C13: the number of events held in the outbound queue never exceeds
\* maxChunks, however slowly the sink drains.
C13_QueueBounded == Len(eq.queue) <= MaxChunks

\* C14: once the close of the transport has been observed (isClosed set),
\* no step of the session passes a done event to the emitter.
C14_NoDoneAfterClose ==
  [][ses.isClosed => Indices(trace', "done") = Indices(trace, "done")]_vars

\* emitTokens has run to its end after the client went away, and no done
\* was sent.
C14_Witness ==
  /\ ses.isClosed
  /\ ses.status = "finished"
  /\ Indices(trace, "done") = {}

\* C15: once the close of the transport has been observed (isClosed set),
\* no step of the session passes any further event to the emitter; the
\* result of a tool in flight at that time is not emitted as tool.result.
C15_NoEventAfterClose == [][ses.isClosed => trace' = trace]_vars

\* The reply a result.delta chunk carries names the error provider_no_result
\* in its diagnostics.
IsNoResultReply(chunk) ==
  JGet(JGet(JSONParse(chunk).val, K_DIAGNOSTICS), K_ERROR) = JGet(JGet(FallbackReply, K_DIAGNOSTICS), K_ERROR)

\* The trace holds a complete fallback Result frame, ahead of any done.
FallbackSent(tr) ==
  \E b \in Indices(tr, "result.begin"), m \in Indices(tr, "result.delta"),
     e \in Indices(tr, "result.end") :
    /\ b < m /\ m < e
    /\ tr[b].id = ID_R_FALLBACK /\ tr[m].id = ID_R_FALLBACK /\ tr[e].id = ID_R_FALLBACK
    /\ IsNoResultReply(tr[m].chunk)
    /\ \A d \in Indices(tr, "done") : e < d

\* C16: a session in a provider mode that has run to its end without a
\* result.end from the rounds has sent a complete Result frame carrying
\* diagnostics.error = provider_no_result before done, and has recorded
\* metrics.degraded = true.
C16_FallbackWhenNoResultEnd ==
  (ses.status = "finished" /\ ses.mode \in ProviderModes) =>
    \/ \E e \in Indices(trace, "result.end") : trace[e].id # ID_R_FALLBACK
    \/ FallbackSent(trace) /\ ses.metrics = "degraded"

\* The schema name in the header of the frame that event i of tr ends.
SchemaOfEnd(tr, i) ==
  LET b == {j \in 1..(i - 1) :
              tr[j].type \in {"json.begin", "result.begin"} /\ tr[j].id = tr[i].id}
  IN IF b = {} THEN <<>> ELSE tr[CHOOSE j \in b : \A k \in b : k <= j].name

EndsOf(tr) == Indices(tr, "json.end") \cup Indices(tr, "result.end")

\* The place in validator.notes of the note pushed when event i of tr, an
\* end of a frame, went through emit: one note is pushed per end.
NoteOf(tr, i) == Cardinality({j \in EndsOf(tr) : j <= i})

\* C20: when an Object or a Result frame ends whose schema name the schema
\* registry does not have, the validator has a ValidationNote for the frame
\* with ok = false.
C20_UnknownSchemaFails ==
  \A i \in EndsOf(trace) :
    RegistryHit(SchemaOfEnd(trace, i)) = {} =>
      /\ NoteOf(trace, i) <= Len(ses.validator.notes)
      /\ ses.validator.notes[NoteOf(trace, i)].frameId = trace[i].id
      /\ ~ses.validator.notes[NoteOf(trace, i)].ok

\* The result.end events of tr for whose frame the validator has noted a
\* failure.
FailedEnds(tr, notes) ==
  {e \in Indices(tr, "result.end") : NoteOf(tr, e) <= Len(notes) /\ ~notes[NoteOf(tr, e)].ok}

\* C17: in every mode, when the run is over with the client still there,
\* the first result.end of a frame whose ValidationNote has ok = false was
\* followed by one call of the repair module and a Result frame with a new
\* id, and the metrics say degraded.
C17_FailedResultRepaired ==
  (ses.status = "finished" /\ ~ses.isClosed) =>
    \A e \in FailedEnds(trace, ses.validator.notes) :
      (\A f \in FailedEnds(trace, ses.validator.notes) : e <= f) =>
        /\ ses.repairs = 1
        /\ \E b \in Indices(trace, "result.begin") : b > e /\ trace[b].id # trace[e].id
        /\ ses.metrics = "degraded"

\* C18: for the errors of every failed ValidationNote the reply
\* attemptRepair returns passes the AssistantReply schema.
C18_RepairedReplyValid ==
  \A n \in 1..Len(ses.validator.notes) :
    ~ses.validator.notes[n].ok =>
      SchemaParse(AssistantReply, attemptRepair(ses.validator.notes[n].errors)).ok

\* The ends of the replacement frames: the Result frames whose body is the
\* reply the repair module has returned.
ReplacementEnds(tr) ==
  {e \in Indices(tr, "result.end") :
     /\ ses.repairs > 0
     /\ e > 1
     /\ tr[e - 1].type = "result.delta"
     /\ tr[e - 1].chunk = JSONStringify(ses.repaired)}

\* C19: attemptRepair is called at most once in a session and at most one
\* replacement frame is sent; no Result frame begins after the replacement
\* has ended, also when the replacement has failed validation itself.
C19_RepairAtMostOnce ==
  /\ ses.repairs <= 1
  /\ Cardinality(ReplacementEnds(trace)) <= 1
  /\ \A e \in ReplacementEnds(trace) : \A b \in Indices(trace, "result.begin") : b < e

\* repair_test is over: the replacement R2 was sent, failed validation and
\* nothing followed it but done.
C19_Witness ==
  /\ ses.mode = "repair_test"
  /\ ses.status = "finished"
  /\ ses.repairs = 1
  /\ Indices(trace, "done") # {}
  /\ \E e \in FailedEnds(trace, ses.validator.notes) \cap ReplacementEnds(trace) :
       trace[e].id = ID_R2

\* The error field of the result of event i of tr is set.
HasError(tr, i) == JGet(tr[i].result, K_ERROR).t # "undefined"

\* C21: the executor has been invoked at most TOOL_RETRIES + 1 times for the
\* session's execTool call; a call that has returned a value or thrown is
\* left as it is until the next call of execTool; and every call of execTool
\* that is over has passed one tool.result to the emitter, a call still
\* running none.
C21_BoundedAttemptsOneOutcome ==
  /\ [](/\ tool.call[1].invoked <= TOOL_RETRIES + 1
        /\ ses.mode # "timeout_test" =>
             Cardinality(Indices(trace, "tool.result"))
               = ses.execCalls - (IF ses.wait = "tool" THEN 1 ELSE 0))
  /\ [][(tool.call[1].pc \in {"returned", "threw"} /\ ses.execCalls' = ses.execCalls)
          => tool.call[1]' = tool.call[1]]_vars

\* retry_test: the first attempt threw, the second returned, and the one
\* tool.result was sent.
C21_Witness ==
  /\ ses.mode = "retry_test"
  /\ tool.call[1].pc = "returned"
  /\ tool.call[1].invoked = TOOL_RETRIES + 1
  /\ ses.execCalls = 1
  /\ Cardinality(Indices(trace, "tool.result")) = 1

\* Event i of tr is the tool.result of a tool whose last allowed attempt
\* was cut off by the guard of withTimeout.
TimedOut(tr, i) ==
  /\ tr[i].type = "tool.result"
  /\ JGet(tr[i].result, K_ERROR) = JStr(ErrorString(MSG_TOOL_TIMEOUT(tr[i].name)))

\* The events of the items written to the sink before it was ended.
WrittenEvents(log) ==
  LET on == SelectSeq(log, LAMBDA l : l.line = "data" /\ ~l.late)
  IN [i \in 1..Len(on) |-> on[i].item.data]

\* C22: when a session whose client has stayed connected and has read all
\* along is over, each tool.result of a tool that timed out on its last
\* allowed attempt has been written to the sink with its error, and a
\* result.begin and a done have been written after it.
C22_TimeoutStillAnswers ==
  (ses.status = "finished" /\ ~ses.isClosed /\ eq.stalls = 0) =>
    \A i \in 1..Len(trace) :
      TimedOut(trace, i) =>
        \E k \in 1..Len(WrittenEvents(eq.log)) :
          /\ WrittenEvents(eq.log)[k] = trace[i]
          /\ \E b \in (k + 1)..Len(WrittenEvents(eq.log)) :
               /\ WrittenEvents(eq.log)[b].type = "result.begin"
               /\ \E d \in (b + 1)..Len(WrittenEvents(eq.log)) :
                    WrittenEvents(eq.log)[d].type = "done"

\* The tool.call events of tr that name a tool ToolsRegistry does not have.
UnknownCalls(tr) == {i \in Indices(tr, "tool.call") : tr[i].name \notin ToolsRegistry}

\* The tool.result events of tr for tool.call i, up to the next tool.call.
ResultsOf(tr, i) ==
  {k \in (i + 1)..(NextToolCall(tr, i) - 1) :
     tr[k].type = "tool.result" /\ tr[k].id = tr[i].id}

UnknownResults(tr) == UNION {ResultsOf(tr, i) : i \in UnknownCalls(tr)}

Lifecycle(tr) ==
  SelectSeq(tr, LAMBDA e : e.type \notin {"ping", "error", "done", "text.delta"})

\* C24: among the frame events passed to the emitter each tool.result comes
\* directly after the tool.call of its id.
C24_ResultDirectlyAfterCall ==
  \A k \in 1..Len(Lifecycle(trace)) :
    Lifecycle(trace)[k].type = "tool.result" =>
      /\ k > 1
      /\ Lifecycle(trace)[k - 1].type = "tool.call"
      /\ Lifecycle(trace)[k - 1].id = Lifecycle(trace)[k].id

\* C25: in the multi-round provider mode, while a provider round after the
\* first is running the execTool call for the tool captured in the round
\* before is over and its tool.result has been passed to the emitter, after
\* the tool.call it answers; one tool.result was emitted per round before.
C25_NextRoundAfterToolResult ==
  (ses.mode = "provider_tools_demo" /\ prov.active /\ prov.calls >= 2) =>
    /\ tool.call[1].pc \in {"returned", "threw"}
    /\ Cardinality(Indices(trace, "tool.result")) = prov.calls - 1
    /\ \E c \in Indices(trace, "tool.call") :
         /\ trace[c].id = ses.cur.id
         /\ \E k \in Indices(trace, "tool.result") :
              k > c /\ trace[k].id = ses.cur.id /\ trace[k].result = ResultOf(tool.call[1])

\* The second round runs after a tool that needed its retry.
C25_Witness ==
  /\ ses.mode = "provider_tools_demo"
  /\ prov.active
  /\ prov.calls = 2
  /\ tool.call[1].pc = "returned"
  /\ tool.call[1].attempt = 1

\* C26: a session calls the provider at most MaxRounds times, each call
\* of the round loop in a pass of its own (the pass counter, which only
\* grows and ends the loop at MaxRounds, is one less than the number of the
\* call), and one time more than it has called execTool at most: a round
\* that ends with no pending tool call is the last.  While emitTokens runs
\* the loop is held up by nothing but the provider call of the pass or the
\* running attempt (or backoff) of its tool call, whose timer is set.
C26_RoundsBounded ==
  /\ [](/\ prov.calls <= MaxRounds
        /\ prov.calls <= ses.execCalls + 1
        /\ ses.round <= MaxRounds
        /\ (ses.mode = "provider_tools_demo" /\ ses.status = "running")
             => \/ ses.wait = "start"
                \/ ses.wait = "provider" /\ prov.active
                \/ /\ ses.wait = "tool"
                   /\ tool.call[1].pc \in {"exec", "backoff"}
                   /\ \/ ses.timers.exec # NoTimer
                      \/ ses.timers.guard # NoTimer
                      \/ ses.timers.backoff # NoTimer)
  /\ [][/\ ses'.round >= ses.round
        /\ (ses.mode = "provider_tools_demo" /\ prov'.calls # prov.calls)
             => prov'.calls = prov.calls + 1 /\ prov'.calls = ses'.round + 1]_vars

\* The last round allowed has been started, after a tool call in each
\* round before.
C26_Witness ==
  /\ ses.mode = "provider_tools_demo"
  /\ prov.calls = MaxRounds
  /\ ses.execCalls = MaxRounds - 1
  /\ prov.active

\* C27: in every provider mode, the step in which a provider call fails
\* sends the error event with code internal_error and closes the queue.
C27_ProviderFailureSendsInternalError ==
  [][SProviderFail =>
       /\ trace' = Append(trace, ErrorEvent("internal_error"))
       /\ eq'.closed]_vars

\* The events of a trace that open a frame.
Openers(tr) ==
  {i \in 1..Len(tr) : tr[i].type \in {"json.begin", "result.begin", "tool.call"}}

\* C29: within one session no two frames carry the same id, the repair
\* frame and the fallback frame included.
C29_FrameIdsDistinct ==
  \A i, j \in Openers(trace) : i # j => trace[i].id # trace[j].id

\* The invocations the idempotency cache holds an entry for.
CachedInvocations(cache) ==
  {i \in ToolInvocations : CacheGet(cache, i.key, i.name, i.args).t # "undefined"}

\* C30: when the idempotency cache holds an entry for (idempotency key, tool
\* name, args), execTool returns the cached value and the executor is not
\* invoked: no attempt is counted, and what the executors have seen and the
\* cache are as before.
C30_CacheHitSkipsExecutor ==
  \A i \in CachedInvocations(tool.cache) :
    LET w == execTool(tool.cache, tool.seen, i.key, i.name, i.args)
    IN /\ w.call.pc = "returned"
       /\ w.call.val = CacheGet(tool.cache, i.key, i.name, i.args)
       /\ w.call.invoked = 0
       /\ w.seen = tool.seen
       /\ w.cache = tool.cache

\* A call has been answered from the cache after the call that filled it.
C30_Witness ==
  \E i \in CachedInvocations(tool.cache) :
    \E d, e \in tool.done :
      /\ d.key = i.key /\ d.name = i.name /\ d.args = i.args
      /\ e.key = i.key /\ e.name = i.name /\ e.args = i.args
      /\ d.invoked > 0
      /\ e.invoked = 0
      /\ e.result = CacheGet(tool.cache, i.key, i.name, i.args)

\* The events of the lines of frames.ndjson but the done lines, consecutive
\* deltas of one frame joined.
FramesOnDisk(art) ==
  AddEvents(<<>>, [i \in 1..Len(SelectSeq(art.frames, LAMBDA l : l.event # "done")) |->
                     SelectSeq(art.frames, LAMBDA l : l.event # "done")[i].data])

\* The frame events a handler has emitted.
FramesEmitted(tr) ==
  SelectSeq(tr, LAMBDA e : e.type \notin {"ping", "error", "done", "text.delta"})

\* C28: the artifacts of a session are unaffected by any other session:
\* once a handler has finished, frames.ndjson holds the frames it emitted
\* and one done line, and metrics.json holds its metrics.
C28_ArtifactsOfOneSession ==
  \A h \in Handlers :
    handlers[h].ses.status = "finished" =>
      /\ FramesOnDisk(disk) = FramesEmitted(handlers[h].trace)
      /\ Cardinality({i \in 1..Len(disk.frames) : disk.frames[i].event = "done"}) = 1
      /\ disk.metrics = Metrics(handlers[h])

BeginSentinels == {SENT_BEGIN_OBJECT, SENT_BEGIN_TOOL, SENT_BEGIN_RESULT}

\* The n characters the next ingest() is given end inside the BEGIN header
\* that starts at index p of the input, and the parser, outside any frame,
\* has all of the text from p on in its buffer and no begin sentinel before.
HeaderCutAt(p, n) ==
  /\ frame.kind = "none"
  /\ p > pos - Len(buffer)
  /\ p <= pos + n
  /\ \E S \in BeginSentinels : StartsWith(input, S, p)
  /\ IndexOf(SubSeq(input, p, pos + n), SENT_END) = 0
  /\ NextBegin(SubSeq(input, pos - Len(buffer) + 1, p - 1)).idx = 0

\* The index of the header's closing bracket, 0 if the input has none.
HeaderClose(p) ==
  IF IndexOf(Rest(input, p), SENT_END) = 0 THEN 0
  ELSE p + IndexOf(Rest(input, p), SENT_END) - 1

\* C31: when the text buffered outside a frame ends with a proper prefix of
\* a BEGIN header, a prefix of the sentinel keyword included, the parser
\* keeps the prefix, emits no event for it, and opens the header's frame
\* when the rest of the header arrives.
C31_PartialHeaderKept ==
  \A n \in 1..(Len(input) - pos) : \A p \in 1..(pos + n) :
    HeaderCutAt(p, n) =>
      /\ ingest(buffer, frame, SubSeq(input, pos + 1, pos + n)).buffer
           = SubSeq(input, p, pos + n)
      /\ ingest(buffer, frame, SubSeq(input, pos + 1, pos + n)).frame = NoFrame
      /\ HeaderClose(p) # 0 =>
           \A S \in BeginSentinels :
             StartsWith(input, S, p) =>
               ingest(SubSeq(input, p, pos + n), NoFrame,
                      SubSeq(input, pos + n + 1, HeaderClose(p))).frame
                 = ParseHeader(S, SubSeq(input, p, HeaderClose(p))).frame

\* The text of the open frame with the chunk the next ingest() is given.
FrameTextWith(chunk) == frame.buf \o buffer \o chunk

\* What the parser has made of a chunk given to it inside a tool frame: no
\* event while the END_TOOL_CALL sentinel has not arrived after the body,
\* and once it has, first the one tool.call of the frame, its args the
\* parsed body, null if the body does not parse.
ToolFrameEvents(chunk, r) ==
  LET idx == indexOfTokenOutsideStrings(FrameTextWith(chunk), SENT_END_TOOL)
  IN IF idx = 0 THEN r.out = <<>> /\ r.frame.kind = "tool"
     ELSE /\ r.out # <<>>
          /\ r.out[1] = ToolCall(frame.id, frame.name,
               IF JSONParse(SubSeq(FrameTextWith(chunk), 1, idx - 1)).ok
               THEN JSONParse(SubSeq(FrameTextWith(chunk), 1, idx - 1)).val
               ELSE JNull)
          /\ \A i \in 2..Len(r.out) : r.out[i].type # "tool.call" \/ r.out[i].id # frame.id

\* C32: for a Tool frame the parser emits no event at the opening sentinel
\* and no delta while the body arrives, and exactly one tool.call at the
\* END_TOOL_CALL sentinel, with args the parsed body or null.
C32_ToolCallOnceAtEnd ==
  /\ frame.kind = "tool" =>
       (trace = <<>> \/ trace[Len(trace)].id # frame.id)
  /\ \A n \in 1..(Len(input) - pos) :
       frame.kind = "tool" =>
         ToolFrameEvents(SubSeq(input, pos + 1, pos + n),
                         ingest(buffer, frame, SubSeq(input, pos + 1, pos + n)))

\* C33: an execTool call with args null (the tool body did not parse) ends
\* in a tool.result whose result carries an error, whichever registered
\* tool is named.
C33_NullArgsGiveError ==
  \A d \in tool.done :
    (d.args = JNull /\ d.name \in ToolsRegistry) =>
      JGet(d.result, K_ERROR).t # "undefined"

\* C34: two invocations whose (idempotency key, tool name, args) differ
\* never map to the same entry of the idempotency cache: their cache keys
\* differ, and an invocation the cache has an entry for is one that an
\* executor has answered.
C34_DistinctTriplesDistinctEntries ==
  /\ \A i, j \in ToolInvocations :
       i # j => keyFor(i.key, i.name, i.args) # keyFor(j.key, j.name, j.args)
  /\ \A i \in CachedInvocations(tool.cache) :
       \E d \in tool.done :
         d.key = i.key /\ d.name = i.name /\ d.args = i.args /\ d.invoked > 0

\* The end events of the frames the validator has a buffer for.
OpenEnds(v) ==
  {JsonEnd(v.json[i].k, Len(v.json[i].v.buf)) : i \in 1..Len(v.json)}
  \cup {ResultEnd(v.result[i].k, Len(v.result[i].v.buf)) : i \in 1..Len(v.result)}

\* Two runs of emit have left the same queue, events sent and artifacts.
SentAlike(a, b) == a.eq = b.eq /\ a.trace = b.trace /\ a.art = b.art

\* What emit sends and writes for event e is what it would send and write
\* with the calls of the validator left out.
ForwardedAlike(st, e) == SentAlike(Emit(st, e), EmitNote(EmitSend(st, e), e))

\* C35: validation only records.  There is one note per json.end and
\* result.end emitted, in their order and with their frame id and kind,
\* whether ok or not; a step leaves the notes it finds as they are and adds
\* behind them; and the end event of a frame the validator is buffering is
\* forwarded the same with and without validation, whether its body passes
\* or fails.
C35_ValidationOnlyRecords ==
  /\ [](/\ Len(ses.validator.notes) = Cardinality(EndsOf(trace))
        /\ \A i \in EndsOf(trace) :
             /\ ses.validator.notes[NoteOf(trace, i)].frameId = trace[i].id
             /\ ses.validator.notes[NoteOf(trace, i)].kind
                  = (IF trace[i].type = "json.end" THEN "json" ELSE "result")
        /\ \A e \in OpenEnds(ses.validator) : ForwardedAlike(Bundle, e))
  /\ [][/\ Len(ses'.validator.notes) >= Len(ses.validator.notes)
        /\ SubSeq(ses'.validator.notes, 1, Len(ses.validator.notes))
             = ses.validator.notes]_vars

\* A frame that passed validation and a frame that failed it have both
\* been forwarded and noted.
C35_Witness ==
  \E i, j \in EndsOf(trace) :
    /\ ~ses.validator.notes[NoteOf(trace, i)].ok
    /\ ses.validator.notes[NoteOf(trace, j)].ok

\* A value an executor returns within TOOL_TIMEOUT_MS: { ok: true, ... },
\* with no error field, and of test.sleep with a sleep within the timeout.
ReturnedInTime(v) ==
  /\ JGet(v, K_OK) = JTrue
  /\ JGet(v, K_ERROR).t = "undefined"
  /\ JGet(v, K_SLEPT_MS).t # "undefined" => JGet(v, K_SLEPT_MS).n <= TOOL_TIMEOUT_MS

\* C36: the idempotency cache holds only values an executor attempt
\* returned before its timeout guard fired, and a tool.result payload is
\* such a value or an error; a call whose executor outlasts the guard on
\* every attempt ends in the timeout error with nothing cached for it, and
\* the arrival of a result after the guard has fired changes neither the
\* cache nor any tool.result.
C36_OnlyTimelyValuesCached ==
  /\ [](/\ \A i \in 1..Len(tool.cache) : ReturnedInTime(tool.cache[i].v)
        /\ \A d \in tool.done :
             /\ JGet(d.result, K_ERROR).t = "undefined" => ReturnedInTime(d.result)
             /\ (d.name = T_TEST_SLEEP /\ JGet(d.args, K_MS).t # "undefined"
                   /\ JGet(d.args, K_MS).n > TOOL_TIMEOUT_MS)
                  => /\ d.result = ErrorPayload(MSG_TOOL_TIMEOUT(d.name))
                     /\ CacheGet(tool.cache, d.key, d.name, d.args).t = "undefined")
  /\ [][(\E c \in Callers : tool'.call[c].late < tool.call[c].late)
          => tool'.cache = tool.cache /\ tool'.done = tool.done]_vars

\* A call has ended in the timeout error, the results of its executor have
\* arrived since, and the cache holds a value of another call.
C36_Witness ==
  /\ \E d \in tool.done : d.result = ErrorPayload(MSG_TOOL_TIMEOUT(d.name))
  /\ \A c \in Callers : tool.call[c].late = 0 /\ tool.call[c].pc = "idle"
  /\ tool.cache # <<>>

RECURSIVE DeltaLengthBack(_, _)
DeltaLengthBack(tr, i) ==
  IF i = 0 \/ tr[i].type \notin {"json.delta", "result.delta"} THEN 0
  ELSE Len(tr[i].chunk) + DeltaLengthBack(tr, i - 1)

\* The index of the event that precedes the deltas counted by DeltaLengthBack.
RECURSIVE BeforeDeltas(_, _)
BeforeDeltas(tr, i) ==
  IF i = 0 \/ tr[i].type \notin {"json.delta", "result.delta"} THEN i
  ELSE BeforeDeltas(tr, i - 1)

\* C38: the length reported in json.end and result.end is the sum of the
\* chunk lengths of all deltas emitted for that frame since its begin event:
\* the events between the end and the begin of the same id are the frame's
\* deltas and their lengths add up to the reported length.
C38_EndLengthIsDeltaSum ==
  \A i \in 1..Len(trace) :
    trace[i].type \in {"json.end", "result.end"} =>
      LET b == BeforeDeltas(trace, i - 1)
      IN /\ b > 0
         /\ trace[b].type = (IF trace[i].type = "json.end" THEN "json.begin" ELSE "result.begin")
         /\ trace[b].id = trace[i].id
         /\ \A j \in (b + 1)..(i - 1) :
              /\ trace[j].id = trace[i].id
              /\ trace[j].type = (IF trace[i].type = "json.end" THEN "json.delta" ELSE "result.delta")
         /\ trace[i].length = DeltaLengthBack(trace, i - 1)

\* An object frame with a body of several characters has just ended, its
\* deltas counted.
C38_Witness ==
  /\ input = In_Escaped
  /\ frame.kind = "none"
  /\ Len(trace) >= 3
  /\ trace[Len(trace)].type = "json.end"
  /\ trace[Len(trace)].length >= 2
  /\ DeltaLengthBack(trace, Len(trace) - 1) = trace[Len(trace)].length

\* The calls without an Idempotency-Key header that an executor has answered
\* with a value for invocation i.
AnsweredWithoutKey(i) ==
  {d \in tool.done :
     /\ d.key = JUndefined /\ d.name = i.name /\ d.args = i.args
     /\ d.invoked > 0
     /\ JGet(d.result, K_ERROR).t = "undefined"}

\* C39: sessions that supply no Idempotency-Key header share one cache
\* namespace, that of the empty key: once a session without a key has had a
\* value from a tool's executor, a later session without a key that calls the
\* same tool with the same args is returned the value cached under the empty
\* key, one that an earlier such session was given, and the executor does
\* not run.
C39_AbsentKeySharesCache ==
  \A i \in ToolInvocations :
    i.key = JUndefined =>
      /\ keyFor(i.key, i.name, i.args) = keyFor(JStr(<<>>), i.name, i.args)
      /\ AnsweredWithoutKey(i) # {} =>
           LET w == execTool(tool.cache, tool.seen, i.key, i.name, i.args)
           IN /\ w.call.pc = "returned"
              /\ w.call.val = CacheGet(tool.cache, JStr(<<>>), i.name, i.args)
              /\ \E d \in AnsweredWithoutKey(i) : d.result = w.call.val
              /\ w.call.invoked = 0
              /\ w.seen = tool.seen
              /\ w.cache = tool.cache

\* A call without a key has been answered from the cache with the value an
\* earlier call without a key was given by the executor.
C39_Witness ==
  \E i \in ToolInvocations :
    /\ i.key = JUndefined
    /\ \E d \in AnsweredWithoutKey(i) :
         \E e \in tool.done :
           /\ e.key = JUndefined /\ e.name = i.name /\ e.args = i.args
           /\ e.invoked = 0
           /\ e.result = d.result

\* The length of the END sentinel the input starts with, 0 if it starts
\* with none: no frame is open when it is received.
StrayEndLen ==
  IF \E t \in {SENT_END_OBJECT, SENT_END_TOOL, SENT_END_RESULT} : StartsWith(input, t, 1)
  THEN IndexOf(input, SENT_END) + Len(SENT_END) - 1 ELSE 0

\* C40: a stray END sentinel received while no frame is open changes no
\* parser state and produces no frame lifecycle event, only text.delta, and
\* a frame opened afterwards is parsed as if the stray sentinel had not been
\* there.  While the sentinel is being received, in chunks of every size,
\* the buffer stays empty, no frame is open and the trace is the text
\* received; the ingest() that brings the text after it leaves the state and
\* emits the frame events of a new parser given that text alone.
C40_StrayEndIsText ==
  /\ [](pos <= StrayEndLen =>
          /\ buffer = <<>>
          /\ frame = NoFrame
          /\ trace = (IF pos = 0 THEN <<>> ELSE <<TextDelta(SubSeq(input, 1, pos))>>))
  /\ [][pos <= StrayEndLen /\ pos' > StrayEndLen =>
          LET r == ingest(<<>>, NoFrame, SubSeq(input, StrayEndLen + 1, pos'))
          IN /\ buffer' = r.buffer
             /\ frame' = r.frame
             /\ FrameEvents(trace') = FrameEvents(AddEvents(<<>>, r.out))]_vars

\* The stray END sentinel has gone out as text and the frame after it is
\* open.
C40_Witness ==
  /\ StrayEndLen > 0
  /\ pos > StrayEndLen
  /\ Len(trace) >= 2
  /\ trace[1] = TextDelta(SubSeq(input, 1, StrayEndLen))
  /\ trace[2].type = "result.begin"
  /\ frame.kind = "result"
====
